---- MODULE Spec2Model ----
(***************************************************************************)
(* A model of the ads_analyzer ingestion pipeline:                         *)
(*   - the ticket-sheet parser of public_sheets_connector.py (row          *)
(*     classification, the 18-column map, cell cleaning, calculated        *)
(*     fields),                                                            *)
(*   - the ad-report pipeline of app.py (header resolution, dataset-type   *)
(*     detection, the required-report check),                              *)
(*   - the show matcher of optimization_v4/optimized-ads-analyzer.py.      *)
(* Text is modelled character by character: a cell, a header or a campaign *)
(* name is a string and every regular expression of the source is an       *)
(* operator over its characters.                                           *)
(***************************************************************************)
EXTENDS Integers, Sequences, FiniteSets, TLC

\* Python's None where the other values are text: a string no cell, header
\* or name of the model equals.
None == "<None>"

\* None / NaN where the other values are floats
NaN == [n |-> 0, d |-> 0]

\* None / NaT where the other values are Timestamps
NaT == [y |-> 0, m |-> 0, d |-> 0]

\* None where the other values are tables or records: Nothing, or <<value>>
Nothing == <<>>

---------------------------------------------------------------------------
\* Characters and strings

\* s[i-1:i]: the i-th character, "" outside the string
Ch(s, i) == IF i \in 1..Len(s) THEN SubSeq(s, i, i) ELSE ""

\* s[i-1:j]: the slice from the i-th to the j-th character, clipped to s
Sub(s, i, j) ==
    SubSeq(s, IF i < 1 THEN 1 ELSE i, IF j > Len(s) THEN Len(s) ELSE j)

Upper == {Ch("ABCDEFGHIJKLMNOPQRSTUVWXYZ", i) : i \in 1..26}
Lower == {Ch("abcdefghijklmnopqrstuvwxyz", i) : i \in 1..26}
Digit == {Ch("0123456789", i) : i \in 1..10}
WhiteSpace == {" ", "\t", "\n"}

AllIn(s, set) == \A i \in 1..Len(s) : Ch(s, i) \in set

\* str.lower() on one character
LowerCh(c) ==
    IF c \in Upper
    THEN Ch("abcdefghijklmnopqrstuvwxyz",
            CHOOSE i \in 1..26 : Ch("ABCDEFGHIJKLMNOPQRSTUVWXYZ", i) = c)
    ELSE c

\* str.upper() on one character
UpperCh(c) ==
    IF c \in Lower
    THEN Ch("ABCDEFGHIJKLMNOPQRSTUVWXYZ",
            CHOOSE i \in 1..26 : Ch("abcdefghijklmnopqrstuvwxyz", i) = c)
    ELSE c

RECURSIVE MapLower(_)
MapLower(s) == IF s = "" THEN "" ELSE LowerCh(Head(s)) \o MapLower(Tail(s))

RECURSIVE MapUpper(_)
MapUpper(s) == IF s = "" THEN "" ELSE UpperCh(Head(s)) \o MapUpper(Tail(s))

\* re.sub(r"[^...]", "", s): keep only the characters of `set`
RECURSIVE Keep(_, _)
Keep(s, set) ==
    IF s = "" THEN ""
    ELSE (IF Head(s) \in set THEN Head(s) ELSE "") \o Keep(Tail(s), set)

\* s.replace(c, d) for a single character c
RECURSIVE Replace(_, _, _)
Replace(s, c, d) ==
    IF s = "" THEN ""
    ELSE (IF Head(s) = c THEN d ELSE Head(s)) \o Replace(Tail(s), c, d)

\* s.count(c) for a single character c
Count(s, c) == Cardinality({i \in 1..Len(s) : Ch(s, i) = c})

\* s.rfind(c): the last 1-based position of c, 0 when absent
RFind(s, c) ==
    IF Count(s, c) = 0 THEN 0
    ELSE CHOOSE i \in 1..Len(s) :
            Ch(s, i) = c /\ \A j \in (i + 1)..Len(s) : Ch(s, j) # c

RECURSIVE LStrip(_)
LStrip(s) == IF s # "" /\ Head(s) \in WhiteSpace THEN LStrip(Tail(s)) ELSE s

RECURSIVE RStrip(_)
RStrip(s) ==
    IF s # "" /\ Ch(s, Len(s)) \in WhiteSpace
    THEN RStrip(Sub(s, 1, Len(s) - 1))
    ELSE s

\* str.strip()
Strip(s) == RStrip(LStrip(s))

\* `sub in s`
Contains(s, sub) ==
    \E i \in 1..(Len(s) - Len(sub) + 1) : Sub(s, i, i + Len(sub) - 1) = sub

\* The first position at or after i whose character is not in `set`
\* (the end of a greedy run such as \d+ or \s*).
RECURSIVE SpanEnd(_, _, _)
SpanEnd(s, i, set) ==
    IF i <= Len(s) /\ Ch(s, i) \in set THEN SpanEnd(s, i + 1, set) ELSE i

DigitVal(c) == (CHOOSE i \in 1..10 : Ch("0123456789", i) = c) - 1

\* int() of a string of digits ("" is 0)
RECURSIVE DigitsToNat(_)
DigitsToNat(s) ==
    IF s = "" THEN 0
    ELSE DigitsToNat(Sub(s, 1, Len(s) - 1)) * 10 + DigitVal(Ch(s, Len(s)))

---------------------------------------------------------------------------
\* Numbers: a float is the exact rational it denotes, [n, d] in lowest terms
\* with d > 0 (binary rounding is not modelled).

Abs(x) == IF x < 0 THEN -x ELSE x

Min(a, b) == IF a < b THEN a ELSE b

Max(a, b) == IF a < b THEN b ELSE a

RECURSIVE GCD(_, _)
GCD(a, b) == IF b = 0 THEN a ELSE GCD(b, a % b)

RECURSIVE Pow10(_)
Pow10(k) == IF k = 0 THEN 1 ELSE 10 * Pow10(k - 1)

Rat(n, d) ==
    LET g == GCD(Abs(n), Abs(d))
        s == IF d < 0 THEN -1 ELSE 1
    IN  [n |-> (s * n) \div g, d |-> (s * d) \div g]

Num(k) == [n |-> k, d |-> 1]

RatAdd(a, b) == Rat(a.n * b.d + b.n * a.d, a.d * b.d)

RatMul(a, b) == Rat(a.n * b.n, a.d * b.d)

\* a / b, b # 0
RatDiv(a, b) == Rat(a.n * b.d, a.d * b.n)

RatLt(a, b) == a.n * b.d < b.n * a.d

RatLe(a, b) == a.n * b.d <= b.n * a.d

---------------------------------------------------------------------------
\* ValueParser (public_sheets_connector.py)

\* float(s) for a string over [0-9.-]: an optional sign, then digits with at
\* most one point and at least one digit; ValueError (NaN here) otherwise.
FloatOf(s) ==
    LET neg  == s # "" /\ Head(s) = "-"
        body == IF neg THEN Tail(s) ELSE s
        p    == RFind(body, ".")
        ip   == IF p = 0 THEN body ELSE Sub(body, 1, p - 1)
        fp   == IF p = 0 THEN "" ELSE Sub(body, p + 1, Len(body))
    IN  IF /\ AllIn(ip, Digit)
           /\ AllIn(fp, Digit)
           /\ Len(ip) + Len(fp) > 0
        THEN LET m == DigitsToNat(ip \o fp)
             IN  Rat(IF neg THEN -m ELSE m, Pow10(Len(fp)))
        ELSE NaN

\* _parse_numeric_amount: thousands separators and decimal commas; None (NaN
\* here) when float() raises
ParseNumericAmount(raw_value) ==
    LET cleaned == Keep(raw_value, Digit \cup {",", ".", "-"})
        commas  == Count(cleaned, ",")
        points  == Count(cleaned, ".")
        text ==
            IF commas > 0 /\ points > 0
            THEN IF RFind(cleaned, ".") > RFind(cleaned, ",")
                 THEN Keep(cleaned, Digit \cup {".", "-"})
                 ELSE Replace(Keep(cleaned, Digit \cup {",", "-"}), ",", ".")
            ELSE IF commas = 1 /\ points = 0
            THEN LET c == RFind(cleaned, ",")
                     fractional_part == Sub(cleaned, c + 1, Len(cleaned))
                 IN  IF Len(fractional_part) \in {1, 2}
                     THEN Replace(cleaned, ",", ".")
                     ELSE Keep(cleaned, Digit \cup {".", "-"})
            ELSE Keep(cleaned, Digit \cup {".", "-"})
    IN  FloatOf(text)

IsLeap(y) == (y % 4 = 0 /\ y % 100 # 0) \/ y % 400 = 0

DaysInMonth(y, m) ==
    IF m = 2 THEN (IF IsLeap(y) THEN 29 ELSE 28)
    ELSE IF m \in {4, 6, 9, 11} THEN 30 ELSE 31

\* pd.to_datetime(text) on ISO calendar dates YYYY-MM-DD, the one date
\* spelling the sheets of this model use: a Timestamp [y, m, d], or a raised
\* parse error (NaT here) for text that is no date.
ToDatetime(s) ==
    IF /\ Len(s) = 10
       /\ AllIn(Sub(s, 1, 4), Digit)
       /\ Ch(s, 5) = "-"
       /\ AllIn(Sub(s, 6, 7), Digit)
       /\ Ch(s, 8) = "-"
       /\ AllIn(Sub(s, 9, 10), Digit)
    THEN LET y == DigitsToNat(Sub(s, 1, 4))
             m == DigitsToNat(Sub(s, 6, 7))
             d == DigitsToNat(Sub(s, 9, 10))
         IN  IF /\ y \in 1678..2261
                /\ m \in 1..12
                /\ d \in 1..DaysInMonth(y, m)
             THEN [y |-> y, m |-> m, d |-> d]
             ELSE NaT
    ELSE NaT

\* Chronological order of Timestamps
DateKey(t) == t.y * 10000 + t.m * 100 + t.d

\* currency_symbol_map, in insertion order (the ASCII symbols; no cell of the
\* model holds one of the four non-ASCII symbols of the table)
CurrencySymbolMap ==
    << <<"R$", "BRL">>, <<"C$", "CAD">>, <<"A$", "AUD">>,
       <<"MX$", "MXN">>, <<"COP$", "COP">>, <<"CLP$", "CLP">> >>

CurrencyCodes ==
    {"USD", "BRL", "EUR", "GBP", "CAD", "AUD", "MXN", "CRC", "JPY", "COP", "CLP"}

\* default_exchange_rates: units of the currency per USD
DefaultExchangeRates ==
    [c \in CurrencyCodes |->
        CASE c = "USD" -> Num(1)
          [] c = "BRL" -> Num(5)
          [] c = "EUR" -> Rat(92, 100)
          [] c = "GBP" -> Rat(79, 100)
          [] c = "CAD" -> Rat(136, 100)
          [] c = "AUD" -> Rat(15, 10)
          [] c = "MXN" -> Rat(168, 10)
          [] c = "CRC" -> Num(515)
          [] c = "JPY" -> Num(151)
          [] c = "COP" -> Num(3920)
          [] c = "CLP" -> Num(925)]

\* _detect_currency_code
DetectCurrencyCode(raw_value) ==
    LET hits == {i \in 1..Len(CurrencySymbolMap) :
                    Contains(raw_value, CurrencySymbolMap[i][1])}
        \* re.search(r"([A-Z]{3})"): the leftmost run of three capitals
        runs == {i \in 1..(Len(raw_value) - 2) :
                    AllIn(Sub(raw_value, i, i + 2), Upper)}
    IN  IF hits # {}
        THEN CurrencySymbolMap[CHOOSE i \in hits : \A j \in hits : i <= j][2]
        ELSE IF runs # {}
        THEN LET i == CHOOSE i \in runs : \A j \in runs : i <= j
                 code == Sub(raw_value, i, i + 2)
             IN  IF code \in CurrencyCodes THEN code ELSE "USD"
        ELSE "USD"

\* rates.get(code), falsy (NaN here) when the key is absent or the rate is 0
RateOf(rates, code) ==
    IF code \in DOMAIN rates /\ rates[code].n # 0 THEN rates[code] ELSE NaN

\* _convert_to_usd without its test for the dollar: the rate of every
\* currency is looked up
ConvertToUsdNoShortcut(amount, currency_code, rates) ==
    IF amount = NaN THEN NaN
    ELSE LET cached == IF rates = Nothing THEN NaN
                       ELSE RateOf(rates[1], currency_code)
             rate   == IF cached # NaN THEN cached
                       ELSE RateOf(DefaultExchangeRates, currency_code)
         IN  IF rate = NaN THEN amount ELSE RatDiv(amount, rate)

\* _convert_to_usd, reading the cache `rates` (Nothing, or <<table>>) that
\* _ensure_exchange_rates left in self.exchange_rates
ConvertToUsd(amount, currency_code, rates) ==
    IF amount = NaN THEN NaN
    ELSE IF currency_code = "USD" THEN amount
    ELSE LET cached == IF rates = Nothing THEN NaN
                       ELSE RateOf(rates[1], currency_code)
             rate   == IF cached # NaN THEN cached
                       ELSE RateOf(DefaultExchangeRates, currency_code)
         IN  IF rate = NaN THEN amount ELSE RatDiv(amount, rate)

NumericFields ==
    {"capacity", "venue_holds", "wheelchair_companions", "camera",
     "artists_hold", "kills", "yesterday_sales", "today_sold",
     "total_sold", "remaining", "sold_percentage", "atp"}

DateFields == {"show_date", "report_date"}

\* _clean_cell_value with 0 for the None of line 241 in a numeric field: an
\* absent numeric cell becomes zero
CleanCellValueZeroWhenAbsent(value, field_name, rates) ==
    LET str_value == Strip(value)
        absent == value = None \/ value = ""
    IN  IF field_name = "sales_to_date"
        THEN IF absent THEN Num(0)
             ELSE LET amount == ParseNumericAmount(str_value)
                  IN  IF amount = NaN THEN NaN
                      ELSE ConvertToUsd(amount, DetectCurrencyCode(str_value),
                                        rates)
        ELSE IF field_name \in NumericFields
        THEN IF absent THEN Num(0) ELSE ParseNumericAmount(str_value)
        ELSE IF field_name \in DateFields
        THEN IF absent THEN NaT ELSE ToDatetime(str_value)
        ELSE IF absent \/ str_value = "" THEN None ELSE str_value

\* _clean_cell_value; the None it returns is NaN for a numeric field, NaT
\* for a date field and None for a text field
CleanCellValue(value, field_name, rates) ==
    LET str_value == Strip(value)
        absent == value = None \/ value = ""
    IN  IF field_name = "sales_to_date"
        THEN IF absent THEN NaN
             ELSE LET amount == ParseNumericAmount(str_value)
                  IN  IF amount = NaN THEN NaN
                      ELSE ConvertToUsd(amount, DetectCurrencyCode(str_value),
                                        rates)
        ELSE IF field_name \in NumericFields
        THEN IF absent THEN NaN ELSE ParseNumericAmount(str_value)
        ELSE IF field_name \in DateFields
        THEN IF absent THEN NaT ELSE ToDatetime(str_value)
        ELSE IF absent \/ str_value = "" THEN None ELSE str_value

---------------------------------------------------------------------------
\* RowClassifier (public_sheets_connector.py; v2/public_sheets_connector.py
\* holds the same patterns and the same function)

MonthNames == {"September", "October", "November", "December"}

\* patterns['show_id']: ^[A-Z]{2,3}_\d{4}(_S\d+)?$
MatchesShowId(s) ==
    \E k \in {2, 3} :
        /\ Len(s) >= k + 5
        /\ AllIn(Sub(s, 1, k), Upper)
        /\ Ch(s, k + 1) = "_"
        /\ AllIn(Sub(s, k + 2, k + 5), Digit)
        /\ LET rest == Sub(s, k + 6, Len(s))
           IN  \/ rest = ""
               \/ /\ Len(rest) >= 3
                  /\ Sub(rest, 1, 2) = "_S"
                  /\ AllIn(Sub(rest, 3, Len(rest)), Digit)

\* patterns['summary_line']: ^\d+\s*\(\+\d+\)\s*\d+ (a prefix match)
MatchesSummaryLine(s) ==
    LET a == SpanEnd(s, 1, Digit)
        b == SpanEnd(s, a, WhiteSpace)
        c == SpanEnd(s, b + 2, Digit)
        d == SpanEnd(s, c + 1, WhiteSpace)
    IN  /\ a > 1
        /\ Sub(s, b, b + 1) = "(+"
        /\ c > b + 2
        /\ Ch(s, c) = ")"
        /\ Ch(s, d) \in Digit

\* _is_date_like
IsDateLike(value) == value # "" /\ ToDatetime(value) # NaT

LineTypes ==
    {"month_header", "month_asterisk", "show_data", "end_row",
     "summary_line", "header", "unknown"}

\* _identify_line_type without its last line: a row no rule matches gets
\* no label
FallbackLineTypeNoDefault(row) ==
    IF Len(row) > 10 /\ IsDateLike(row[2]) THEN "show_data" ELSE None

\* _identify_line_type, lines 186-190: the fallback on the row's shape. The
\* second cell is read only behind the length test.
FallbackLineType(row) ==
    IF Len(row) > 10 /\ IsDateLike(row[2]) THEN "show_data" ELSE "unknown"

\* _identify_line_type: the first matching rule decides
IdentifyLineType(first_cell, row) ==
    IF first_cell \in MonthNames THEN "month_header"
    ELSE IF \E m \in MonthNames : first_cell = "*" \o m \o "*" THEN "month_asterisk"
    ELSE IF MatchesShowId(first_cell) THEN "show_data"
    ELSE IF first_cell = "endRow" THEN "end_row"
    ELSE IF MatchesSummaryLine(first_cell) THEN "summary_line"
    ELSE IF Contains(first_cell, "Show ID") \/ Contains(first_cell, "Show Date")
    THEN "header"
    ELSE FallbackLineType(row)

---------------------------------------------------------------------------
\* ShowSnapshotBuilder (public_sheets_connector.py)

\* column_mapping: the field of column col_idx is ColumnMapping[col_idx + 1]
ColumnMapping ==
    <<"show_id", "show_date", "report_date", "show_name", "capacity",
      "venue_holds", "wheelchair_companions", "camera", "artists_hold",
      "kills", "yesterday_sales", "today_sold", "sales_to_date",
      "total_sold", "remaining", "sold_percentage", "atp", "report_message">>

FieldNames == {ColumnMapping[i] : i \in 1..Len(ColumnMapping)}

\* The 1-based position of a field's column
ColumnIndex(field_name) ==
    CHOOSE i \in 1..Len(ColumnMapping) : ColumnMapping[i] = field_name

MinColumns == 18

\* _extract_show_data without lines 228-230: a snapshot is returned whatever
\* its show_id and show_name
ExtractShowDataKeepsAll(row, row_idx, month, rates) ==
    IF Len(row) < MinColumns THEN Nothing
    ELSE << [field_name \in FieldNames |->
                CleanCellValue(row[ColumnIndex(field_name)], field_name, rates)]
            @@ [source_row |-> row_idx, current_month |-> month] >>

\* _extract_show_data: the snapshot of a show row, <<show_data>>, or Nothing
\* for the None it returns. extraction_date (the wall-clock time of the
\* parse) is left out of the snapshot.
ExtractShowData(row, row_idx, month, rates) ==
    IF Len(row) < MinColumns THEN Nothing
    ELSE LET show_data ==
                 [field_name \in FieldNames |->
                     CleanCellValue(row[ColumnIndex(field_name)], field_name,
                                    rates)]
                 @@ [source_row |-> row_idx, current_month |-> month]
         IN  IF show_data.show_id = None \/ show_data.show_name = None
             THEN Nothing
             ELSE <<show_data>>

---------------------------------------------------------------------------
\* SnapshotConsolidator (public_sheets_connector.py, _add_calculated_fields)

RollingWindow == 7

\* pd.Timestamp.min, the stand-in fillna gives a missing report_date
TimestampMin == [y |-> 1677, m |-> 9, d |-> 21]

RECURSIVE SeqSum(_)
SeqSum(s) == IF s = <<>> THEN Num(0) ELSE RatAdd(Head(s), SeqSum(Tail(s)))

\* occupancy_rate without the factor 100: a fraction, not a percentage
OccupancyRateFraction(r) ==
    IF r.capacity # NaN /\ RatLt(Num(0), r.capacity)
    THEN IF r.total_sold = NaN THEN NaN
         ELSE RatDiv(r.total_sold, r.capacity)
    ELSE Num(0)

\* occupancy_rate: np.where(capacity > 0, total_sold / capacity * 100, 0);
\* a NaN capacity compares False, a NaN total_sold gives NaN
OccupancyRate(r) ==
    IF r.capacity # NaN /\ RatLt(Num(0), r.capacity)
    THEN IF r.total_sold = NaN THEN NaN
         ELSE RatMul(RatDiv(r.total_sold, r.capacity), Num(100))
    ELSE Num(0)

\* The order sort_values(['show_id', 'report_date']) gives two rows of one
\* show: by report_date, NaT last, equal keys in the order of the frame (the
\* sort over several keys is stable). The order it gives rows of different
\* shows enters no grouped result and is not modelled.
SortsBefore(df, j, i) ==
    /\ df[j].show_id = df[i].show_id
    /\ \/ /\ df[j].report_date # NaT
          /\ \/ df[i].report_date = NaT
             \/ DateKey(df[j].report_date) < DateKey(df[i].report_date)
       \/ /\ j < i
          /\ df[j].report_date = df[i].report_date

\* The rows of row i's show in sorted order, up to and including row i
RECURSIVE SeriesUpTo(_, _, _)
SeriesUpTo(df, i, todo) ==
    IF todo = {} THEN <<i>>
    ELSE LET j == CHOOSE j \in todo : \A k \in todo \ {j} : SortsBefore(df, j, k)
         IN  <<j>> \o SeriesUpTo(df, i, todo \ {j})

\* today_sold.fillna(0) of the row's show, in sorted order, up to row i
TodaySoldSeries(df, i) ==
    LET order == SeriesUpTo(df, i, {j \in 1..Len(df) : SortsBefore(df, j, i)})
    IN  [k \in 1..Len(order) |->
            IF df[order[k]].today_sold = NaN THEN Num(0)
            ELSE df[order[k]].today_sold]

\* s.rolling(...) without its window: every observation of the series up to
\* the row enters the sum
RollingObservationsExpanding(series, window) == series

\* s.rolling(window, min_periods=1): the observations in the window that
\* ends at the last element of `series`
RollingObservations(series, window) ==
    SubSeq(series, Max(1, Len(series) - window + 1), Len(series))

\* rolling(window=7, min_periods=1).sum() at row i
SalesLast7Days(df, i) ==
    SeqSum(RollingObservations(TodaySoldSeries(df, i), RollingWindow))

\* rolling(...).mean() with the window length for its divisor, whatever the
\* number of observations
RollingCountFixed(series, window) == window

\* The divisor of rolling(...).mean(): the observations in the window
RollingCount(series, window) == Len(RollingObservations(series, window))

\* rolling(window=7, min_periods=1).mean() at row i
AvgSalesLast7Days(df, i) ==
    LET series == TodaySoldSeries(df, i)
    IN  RatDiv(SeqSum(RollingObservations(series, RollingWindow)),
               Num(RollingCount(series, RollingWindow)))

\* report_date.fillna(pd.Timestamp.min)
RankKey(r) ==
    IF r.report_date = NaT THEN DateKey(TimestampMin) ELSE DateKey(r.report_date)

\* groupby(show_id).rank(method='first'): equal keys rank in frame order
ReportRank(df, i) ==
    1 + Cardinality({j \in 1..Len(df) :
            /\ df[j].show_id = df[i].show_id
            /\ \/ RankKey(df[j]) < RankKey(df[i])
               \/ RankKey(df[j]) = RankKey(df[i]) /\ j < i})

\* is_latest_snapshot: the row's rank is the largest of its show
IsLatestSnapshot(df, i) ==
    \A j \in 1..Len(df) :
        df[j].show_id = df[i].show_id => ReportRank(df, j) <= ReportRank(df, i)

\* pd.cut(occupancy_rate, bins=[0, 50, 75, 90, 100], labels=[...],
\* include_lowest=True): the bins are closed on the right, the first one
\* takes its left edge too, and a value in no bin (or NaN) has no category
PerformanceCategory(occupancy_rate) ==
    IF occupancy_rate = NaN THEN None
    ELSE IF RatLt(occupancy_rate, Num(0)) THEN None
    ELSE IF RatLe(occupancy_rate, Num(50)) THEN "Underperforming"
    ELSE IF RatLe(occupancy_rate, Num(75)) THEN "Developing"
    ELSE IF RatLe(occupancy_rate, Num(90)) THEN "Strong"
    ELSE IF RatLe(occupancy_rate, Num(100)) THEN "Sold Out"
    ELSE None

CalculatedFields(df, i) ==
    [occupancy_rate |-> OccupancyRate(df[i]),
     sales_last_7_days |-> SalesLast7Days(df, i),
     avg_sales_last_7_days |-> AvgSalesLast7Days(df, i),
     is_latest_snapshot |-> IsLatestSnapshot(df, i),
     performance_category |-> PerformanceCategory(OccupancyRate(df[i]))]

\* _add_calculated_fields: the frame in its original row order, each row
\* with its calculated columns
AddCalculatedFields(df) ==
    [i \in 1..Len(df) |-> df[i] @@ CalculatedFields(df, i)]

\* _clean_and_transform: an empty frame is returned as it is; rows without a
\* show_id are dropped before the calculated fields are added
CleanAndTransform(shows) ==
    IF shows = <<>> THEN <<>>
    ELSE AddCalculatedFields(
            SelectSeq(shows, LAMBDA r : r.show_id # None /\ r.show_id # ""))

\* The show ids of the report rows in the order sort_values gives strings
ShowIdsSorted == <<"BOS_1010", "NYC_1004", "WDC_0927">>

ShowIdPosition(show_id) ==
    CHOOSE k \in 1..Len(ShowIdsSorted) : ShowIdsSorted[k] = show_id

\* sort_values(["show_id", "report_date", "extraction_date"]) inside one
\* show: row j stands after row i. NaT sorts last (na_position="last");
\* the rows were stamped with extraction_date in frame order and the sort
\* is stable, so equal report dates keep the frame order
SortsAfter(df, j, i) ==
    \/ df[i].report_date # NaT /\ df[j].report_date = NaT
    \/ /\ df[i].report_date # NaT /\ df[j].report_date # NaT
       /\ DateKey(df[j].report_date) > DateKey(df[i].report_date)
    \/ /\ df[i].report_date = df[j].report_date
       /\ j > i

\* _latest_snapshots: the frame sorted by show_id, report_date and
\* extraction_date, the last row of each show kept, the index reset
LatestSnapshots(df) ==
    IF df = <<>> THEN df
    ELSE LET kept == {i \in 1..Len(df) :
                        \A j \in 1..Len(df) :
                            df[j].show_id = df[i].show_id
                                => ~SortsAfter(df, j, i)}
             position(i) ==
                 1 + Cardinality({j \in kept :
                        ShowIdPosition(df[j].show_id)
                            < ShowIdPosition(df[i].show_id)})
         IN  [k \in 1..Cardinality(kept) |->
                 df[CHOOSE i \in kept : position(i) = k]]

---------------------------------------------------------------------------
\* The exchange-rate cache (public_sheets_connector.py)

\* The cache is fresh for 6 * 3600 seconds; the model's clock counts hours.
TtlHours == 6

\* The guard of _ensure_exchange_rates with <= for <: a cache exactly as old
\* as the TTL still counts as fresh
CacheIsFreshInclusive(rates, last_updated, now) ==
    /\ rates # Nothing
    /\ last_updated # Nothing
    /\ now - last_updated[1] <= TtlHours

\* The guard of _ensure_exchange_rates, lines 419-424: there is a table, it
\* has a timestamp and it is younger than the TTL
CacheIsFresh(rates, last_updated, now) ==
    /\ rates # Nothing
    /\ last_updated # Nothing
    /\ now - last_updated[1] < TtlHours

\* _ensure_exchange_rates with the timestamp renewed after a failed refresh
\* over a table: the stale table counts as fresh for another TTL
EnsureExchangeRatesStampsFailure(rates, last_updated, now, fetched) ==
    IF CacheIsFresh(rates, last_updated, now)
    THEN <<rates, last_updated>>
    ELSE IF fetched # Nothing THEN <<fetched[1], <<now>> >>
    ELSE IF rates = Nothing THEN << <<DefaultExchangeRates>>, <<now>> >>
    ELSE <<rates, <<now>> >>

\* _ensure_exchange_rates, as the pair <<exchange_rates,
\* exchange_rates_last_updated>> it leaves (each Nothing or <<value>>).
\* `fetched` is the outcome of the remote call: <<payload["rates"]>> for a
\* payload with result "success" and a "rates" key (<<table>>, or Nothing
\* for a null), Nothing for a request error, an HTTP error or an unexpected
\* payload.
EnsureExchangeRates(rates, last_updated, now, fetched) ==
    IF CacheIsFresh(rates, last_updated, now)
    THEN <<rates, last_updated>>
    ELSE IF fetched # Nothing THEN <<fetched[1], <<now>> >>
    ELSE IF rates = Nothing THEN << <<DefaultExchangeRates>>, <<now>> >>
    ELSE <<rates, last_updated>>

\* A table the remote API may return (payload["rates"])
RemoteRates == [c \in {"USD", "BRL"} |-> IF c = "USD" THEN Num(1) ELSE Num(4)]

\* A table of a payload whose base is not the dollar
RebasedRates ==
    [c \in {"USD", "BRL"} |-> IF c = "USD" THEN Rat(1, 4) ELSE Num(1)]

\* The outcomes of the remote call: no payload accepted, or the value under
\* "rates" of an accepted one
FetchOutcomes ==
    {Nothing, << <<RemoteRates>> >>, << <<RebasedRates>> >>, <<Nothing>>}

---------------------------------------------------------------------------
\* Header resolution and dataset-type detection (app.py, v2/app.py,
\* v2/validate_csv.py). A table's columns are the list of its headers.

\* An entry of standard_column_aliases
Aliases(standard, aliases) == [standard |-> standard, aliases |-> aliases]

\* The aliases of time_of_day with an alias of date among them
TimeOfDayAliasesWithDate ==
    <<"time of day (viewer's time zone)", "time", "date">>

\* standard_column_aliases["time_of_day"] of app.py
TimeOfDayAliases == <<"time of day (viewer's time zone)", "time">>

\* standard_column_aliases of app.py, in insertion order
StandardColumnAliases ==
    << Aliases("date", <<"reporting_starts", "date", "day", "date_start",
                         "created_time">>),
       Aliases("campaign_name", <<"campaign_name", "campaign", "campaign id",
                                  "campaign">>),
       Aliases("ad_set_name", <<"ad_set_name", "ad set name">>),
       Aliases("ad_name", <<"ad_name", "ad name">>),
       Aliases("impressions", <<"impressions">>),
       Aliases("reach", <<"reach">>),
       Aliases("frequency", <<"frequency">>),
       Aliases("clicks", <<"clicks", "link_clicks", "link clicks">>),
       Aliases("spend", <<"spend", "amount_spent", "amount spent",
                          "amount spent (usd)">>),
       Aliases("ctr", <<"ctr", "ctr (link)", "click_through_rate">>),
       Aliases("cpc", <<"cpc", "cost_per_click">>),
       Aliases("cpm", <<"cpm", "cpm (cost per 1,000 impressions)",
                        "cpm (cost per 1,000 impressions) (usd)">>),
       Aliases("results", <<"results">>),
       Aliases("result_indicator", <<"result_indicator", "result indicator">>),
       Aliases("ends", <<"ends">>),
       Aliases("starts", <<"starts">>),
       Aliases("placement", <<"placement">>),
       Aliases("platform", <<"platform">>),
       Aliases("device_platform", <<"device platform", "device_platform">>),
       Aliases("impression_device", <<"impression device">>),
       Aliases("time_of_day", TimeOfDayAliases) >>

\* standard_column_aliases of v2/app.py, in insertion order
StandardColumnAliasesV2 ==
    << Aliases("date", <<"reporting_starts", "reporting starts", "date", "day",
                         "date_start", "created_time", "reportingstarts">>),
       Aliases("reporting_ends", <<"reporting_ends", "reporting ends",
                                   "reportingends", "date_stop">>),
       Aliases("campaign_name", <<"campaign_name", "campaign name", "campaign",
                                  "campaign id", "campaignname">>),
       Aliases("campaign_delivery", <<"campaign_delivery", "campaign delivery",
                                      "campaigndelivery">>),
       Aliases("ad_set_name", <<"ad_set_name", "ad set name", "adsetname">>),
       Aliases("ad_set_budget", <<"ad_set_budget", "ad set budget",
                                  "adsetbudget">>),
       Aliases("ad_set_budget_type", <<"ad_set_budget_type",
                                       "ad set budget type", "adsetbudgettype">>),
       Aliases("ad_name", <<"ad_name", "ad name", "adname">>),
       Aliases("impressions", <<"impressions", "impression">>),
       Aliases("reach", <<"reach">>),
       Aliases("frequency", <<"frequency">>),
       Aliases("clicks", <<"clicks", "link_clicks", "link clicks",
                           "linkclicks">>),
       Aliases("spend", <<"spend", "amount_spent", "amount spent",
                          "amount spent (usd)", "amountspent",
                          "amountspent(usd)", "amountspent usd">>),
       Aliases("ctr", <<"ctr", "ctr (link)", "ctr(link)", "ctrlink",
                        "click_through_rate">>),
       Aliases("cpc", <<"cpc", "cost_per_click", "costperclick">>),
       Aliases("cpm", <<"cpm", "cpm (cost per 1,000 impressions)",
                        "cpm (cost per 1,000 impressions) (usd)",
                        "cpmcostper1000impressions",
                        "cpmcostper1000impressionsusd">>),
       Aliases("results", <<"results", "result">>),
       Aliases("result_indicator", <<"result_indicator", "result indicator",
                                     "resultindicator">>),
       Aliases("cost_per_results", <<"cost_per_results", "cost per results",
                                     "costperresults">>),
       Aliases("attribution_setting", <<"attribution_setting",
                                        "attribution setting",
                                        "attributionsetting">>),
       Aliases("ends", <<"ends">>),
       Aliases("starts", <<"starts">>),
       Aliases("placement", <<"placement">>),
       Aliases("platform", <<"platform">>),
       Aliases("device_platform", <<"device platform", "device_platform",
                                    "deviceplatform">>),
       Aliases("impression_device", <<"impression device", "impression_device",
                                      "impressiondevice">>),
       Aliases("time_of_day", <<"time of day (viewer's time zone)",
                                "time of day", "time",
                                "timeofdayviewerstimezone", "timeofday">>) >>

\* Headers of ad-report exports
HeaderPool ==
    {"Reporting starts", "Reporting ends", "Day", "date", "Campaign name",
     "Ad set name", "Placement", "Device platform",
     "Time of day (viewer's time zone)", "Time"}

\* An uploaded file: its name, whether pandas can read it, whether the table
\* read has rows, and its headers
File(name, readable, rows, headers) ==
    [name |-> name, readable |-> readable, rows |-> rows, headers |-> headers]

UploadPool ==
    {File("days.csv", TRUE, TRUE,
          <<"Reporting starts", "Ad set name", "Impressions", "Clicks">>),
     File("placement.csv", TRUE, TRUE,
          <<"Reporting starts", "Ad set name", "Placement",
            "Device platform">>),
     File("time.csv", TRUE, TRUE,
          <<"Reporting starts", "Ad set name",
            "Time of day (viewer's time zone)">>),
     File("campaigns.csv", TRUE, TRUE,
          <<"Day", "Campaign name", "Amount spent">>),
     File("device-export.csv", TRUE, FALSE, <<"Campaign name">>),
     File("notes.txt", FALSE, FALSE, <<>>)}

\* The column names of the tables the model reads
ColumnNames ==
    HeaderPool
    \cup UNION {{file.headers[i] : i \in 1..Len(file.headers)} :
                   file \in UploadPool}
    \cup {StandardColumnAliases[s].standard :
             s \in 1..Len(StandardColumnAliases)}
    \cup {StandardColumnAliasesV2[s].standard :
             s \in 1..Len(StandardColumnAliasesV2)}

\* re.sub(r"[^a-z0-9]", "", text.lower())
LowerAlnum(text) == Keep(MapLower(text), Lower \cup Digit)

\* _normalize_column_name on each of ColumnNames, computed once
NormalizedNames == [col \in ColumnNames |-> LowerAlnum(col)]

\* _normalize_column_name
NormalizeColumnName(col) ==
    IF col \in ColumnNames THEN NormalizedNames[col] ELSE LowerAlnum(col)

\* The table with every alias in its normalized form (normalized_alias)
NormalizedAliases(table) ==
    [s \in 1..Len(table) |->
        [standard |-> table[s].standard,
         aliases  |-> [j \in 1..Len(table[s].aliases) |->
                          NormalizeColumnName(table[s].aliases[j])]]]

AliasIndex == NormalizedAliases(StandardColumnAliases)

AliasIndexV2 == NormalizedAliases(StandardColumnAliasesV2)

\* normalized_existing[key]: the last column whose normalized name is key
NormalizedExisting(columns, key) ==
    LET at == {i \in 1..Len(columns) : NormalizeColumnName(columns[i]) = key}
    IN  columns[CHOOSE i \in at : \A j \in at : j <= i]

\* The keys of normalized_existing
ExistingKeys(columns) ==
    {NormalizeColumnName(columns[i]) : i \in 1..Len(columns)}

\* The loop of detect_and_normalize_columns: the standards that put current
\* name `col` into col_map. A standard stops at its first alias that is a
\* key of normalized_existing, and maps that column unless the standard is
\* a column already.
MappingStandards(columns, index, col) ==
    LET keys == ExistingKeys(columns)
    IN  {s \in 1..Len(index) :
            LET found == {j \in 1..Len(index[s].aliases) :
                             index[s].aliases[j] \in keys}
            IN  /\ found # {}
                /\ NormalizedExisting(columns,
                      index[s].aliases[CHOOSE j \in found :
                                          \A k \in found : j <= k]) = col
                /\ \A i \in 1..Len(columns) : columns[i] # index[s].standard}

\* detect_and_normalize_columns on a table with rows: the columns after
\* rename(columns=col_map); a later standard overwrites an earlier one's
\* entry for the same column
DetectAndNormalizeColumns(columns, index) ==
    [i \in 1..Len(columns) |->
        LET standards == MappingStandards(columns, index, columns[i])
        IN  IF standards = {} THEN columns[i]
            ELSE index[CHOOSE s \in standards :
                          \A t \in standards : t <= s].standard]

\* standard_column_aliases of optimized-ads-analyzer.py
StandardColumnAliasesV4 ==
    << Aliases("date", <<"reporting_starts", "date", "day", "date_start",
                         "created_time">>),
       Aliases("campaign_name", <<"campaign_name", "campaign", "campaign id">>),
       Aliases("ad_set_name", <<"ad_set_name", "ad set name", "adset name">>),
       Aliases("ad_name", <<"ad_name", "ad name">>),
       Aliases("impressions", <<"impressions", "impression">>),
       Aliases("reach", <<"reach", "unique_reach">>),
       Aliases("frequency", <<"frequency">>),
       Aliases("clicks", <<"clicks", "link_clicks", "link clicks",
                           "outbound_clicks">>),
       Aliases("spend", <<"spend", "amount_spent", "amount spent",
                          "amount spent (usd)", "cost">>),
       Aliases("ctr", <<"ctr", "ctr (link)", "click_through_rate",
                        "link_click_through_rate">>),
       Aliases("cpc", <<"cpc", "cost_per_click", "cost per link click">>),
       Aliases("cpm", <<"cpm", "cpm (cost per 1,000 impressions)",
                        "cost per 1,000 impressions">>),
       Aliases("results", <<"results", "result", "conversions", "purchases">>),
       Aliases("result_indicator", <<"result_indicator", "result indicator",
                                     "action_type">>),
       Aliases("placement", <<"placement", "publisher_platform">>),
       Aliases("device_platform", <<"device platform", "device_platform",
                                    "impression_device">>),
       Aliases("time_of_day", <<"time of day (viewer's time zone)", "time",
                                "hour">>) >>

AliasIndexV4 == NormalizedAliases(StandardColumnAliasesV4)

\* column_positions[file_type]: the name of the column at each position
\* (position pos of the code is pos + 1 here); no positions for no type
ColumnPositions(file_type) ==
    IF file_type = "days"
    THEN <<"date", "campaign_name", "ad_set_name", "ad_name", "impressions",
           "reach", "frequency", "clicks", "spend", "ctr", "cpc", "cpm">>
    ELSE IF file_type = "days_placement_device"
    THEN <<"date", "campaign_name", "ad_set_name", "placement",
           "device_platform", "impressions", "clicks", "spend">>
    ELSE IF file_type = "days_time"
    THEN <<"date", "campaign_name", "ad_set_name", "time_of_day",
           "impressions", "clicks", "spend">>
    ELSE <<>>

\* normalized_df.rename(columns={current_col: col_name}, inplace=True): every
\* column of that name is renamed
RenameColumn(columns, current_col, col_name) ==
    [i \in 1..Len(columns) |->
        IF columns[i] = current_col THEN col_name ELSE columns[i]]

\* detect_and_normalize_columns of optimized-ads-analyzer.py, lines 169-175,
\* from position pos on: the column at each position of pos_map is given the
\* name of that position when _is_likely_column_type accepts its values
\* (`likely` holds the positions whose values it accepts)
RECURSIVE ApplyPositions(_, _, _, _)
ApplyPositions(columns, pos_map, likely, pos) ==
    IF pos > Len(pos_map) \/ pos > Len(columns) THEN columns
    ELSE ApplyPositions(
             IF pos \in likely
             THEN RenameColumn(columns, columns[pos], pos_map[pos])
             ELSE columns,
             pos_map, likely, pos + 1)

\* detect_and_normalize_columns of optimized-ads-analyzer.py on a table with
\* rows: the names by position, then the names by alias
DetectAndNormalizeColumnsV4(columns, file_type, likely) ==
    DetectAndNormalizeColumns(
        ApplyPositions(columns, ColumnPositions(file_type), likely, 1),
        AliasIndexV4)

\* The normalized names identify_dataset_type looks for
NormalizedColumns(columns) == ExistingKeys(columns)

\* identify_dataset_type of app.py
IdentifyDatasetType(columns) ==
    LET normalized_columns == NormalizedColumns(columns)
    IN  IF \/ "timeofdayviewerstimezone" \in normalized_columns
           \/ "timeofday" \in normalized_columns
        THEN "days_time"
        ELSE IF \/ "placement" \in normalized_columns
                \/ "platform" \in normalized_columns
        THEN "days_placement_device"
        ELSE IF \/ {"adsetname", "date"} \subseteq normalized_columns
                \/ {"reportingstarts", "adsetname"} \subseteq normalized_columns
        THEN "days"
        ELSE None

\* identify_dataset_type of v2/app.py
IdentifyDatasetTypeV2(columns) ==
    LET normalized_columns == NormalizedColumns(columns)
        has_date == {"date", "reportingstarts", "reportingends"}
                        \cap normalized_columns # {}
        has_campaign == {"campaignname", "campaign"} \cap normalized_columns # {}
    IN  IF \/ "timeofdayviewerstimezone" \in normalized_columns
           \/ "timeofday" \in normalized_columns
        THEN "days_time"
        ELSE IF {"placement", "platform", "deviceplatform"}
                    \cap normalized_columns # {}
        THEN "days_placement_device"
        ELSE IF has_date /\ has_campaign THEN "days"
        ELSE None

\* _identify_file_type of v2/validate_csv.py, on the normalized names of the
\* file's own headers
IdentifyFileType(columns) ==
    LET normalized_columns == NormalizedColumns(columns)
        has_date == "reportingstarts" \in normalized_columns
        has_campaign == {"campaignname", "campaign"} \cap normalized_columns # {}
    IN  IF \/ "timeofdayviewerstimezone" \in normalized_columns
           \/ "timeofday" \in normalized_columns
        THEN "days_time"
        ELSE IF {"placement", "platform", "deviceplatform"}
                    \cap normalized_columns # {}
        THEN "days_placement_device"
        ELSE IF has_date /\ has_campaign THEN "days"
        ELSE None

\* calculate_missing_kpis on a table with rows: the columns it leaves
CalculateMissingKpis(columns) ==
    LET has(c) == \E i \in 1..Len(columns) : columns[i] = c
    IN  columns
        \o (IF has("impressions") /\ has("clicks") /\ ~has("ctr")
            THEN <<"ctr">> ELSE <<>>)
        \o (IF has("spend") /\ has("clicks") /\ ~has("cpc")
            THEN <<"cpc">> ELSE <<>>)
        \o (IF has("spend") /\ has("impressions") /\ ~has("cpm")
            THEN <<"cpm">> ELSE <<>>)

\* The targets of funnel_column_aliases, in insertion order
FunnelTargets == <<"lp_views", "add_to_cart", "purchases">>

\* normalize_funnel_columns on a table with rows: the columns it leaves.
\* Every target becomes a column, copied from an alias column or filled
\* with 0.
NormalizeFunnelColumns(columns) ==
    columns \o SelectSeq(FunnelTargets,
                   LAMBDA t : \A i \in 1..Len(columns) : columns[i] # t)

\* The message of the ValueError process_ads_files raises (app.py)
MissingFilesMessage ==
    "Missing required files. Please upload reports that match the 'Days', "
    \o "'Days + Placement + Device', and 'Days + Time' exports."

RequiredTypes == {"days", "days_placement_device", "days_time"}

---------------------------------------------------------------------------
\* Show matching (optimization_v4/optimized-ads-analyzer.py and app.py).
\* A regular expression is an operator that follows it through the text,
\* position by position, and re.search tries the positions from the left.
\* With re.IGNORECASE the lower-cased text `low` is followed and the groups
\* are cut from the text itself.

Letters == Upper \cup Lower

\* \w, the characters \b tells apart from the others
WordChars == Letters \cup Digit \cup {"_"}

\* text[i-1:].startswith(literal)
StartsAt(text, i, literal) ==
    /\ i >= 1
    /\ i + Len(literal) - 1 <= Len(text)
    /\ Sub(text, i, i + Len(literal) - 1) = literal

\* \d{4} at position i
FourDigitsAt(text, i) ==
    i >= 1 /\ i + 3 <= Len(text) /\ AllIn(Sub(text, i, i + 3), Digit)

\* The least member of a non-empty set of positions
Leftmost(positions) == CHOOSE i \in positions : \A j \in positions : i <= j

\* `value`, or `other` when value is `absent`
FirstOf(value, absent, other) == IF value # absent THEN value ELSE other

\* The position after the separator at j, and after the white space behind
\* it when `spaced`; 0 when the separator is not at j
SkipSeparator(text, j, sep, spaced) ==
    IF Ch(text, j) # sep THEN 0
    ELSE IF spaced THEN SpanEnd(text, j + 1, WhiteSpace)
    ELSE j + 1

\* The position after  \s* sep \s*  at i (sep alone unless `spaced`), 0 when
\* it does not match
AfterSeparator(text, i, sep, spaced) ==
    SkipSeparator(text, IF spaced THEN SpanEnd(text, i, WhiteSpace) ELSE i,
                  sep, spaced)

\* The groups of a show-id match: the letters from i to a - 1, the digits
\* from c, and the digits from g + 1 to h - 1 behind the S at g (h = 0 when
\* the optional sequence does not match)
ShowIdParts(text, i, a, c, g, h) ==
    [city     |-> Sub(text, i, a - 1),
     date     |-> Sub(text, c, c + 3),
     sequence |-> IF h > g + 1 THEN Sub(text, g + 1, h - 1) ELSE "",
     whole    |-> Sub(text, i, (IF h > g + 1 THEN h ELSE c + 4) - 1)]

\* (?: sep S(\d+) )? behind the four digits, g being the position behind
\* the separator (0 when there is none)
ShowIdSequence(text, i, a, c, g) ==
    ShowIdParts(text, i, a, c, g,
                IF g > 0 /\ Ch(text, g) = "S"
                THEN SpanEnd(text, g + 1, Digit) ELSE 0)

\* sep \d{4} behind the letters, c being the position behind the separator
ShowIdDate(text, i, a, c, sep, spaced) ==
    IF c > 0 /\ FourDigitsAt(text, c)
    THEN <<ShowIdSequence(text, i, a, c,
                          AfterSeparator(text, c + 4, sep, spaced))>>
    ELSE Nothing

\* [A-Z]{k} sep \d{4} (?: sep S(\d+) )? at position i of text, with \s*
\* around each separator when `spaced`: Nothing, or <<the groups>>
ShowIdMatchOf(text, i, k, sep, spaced) ==
    IF i + k - 1 <= Len(text) /\ AllIn(Sub(text, i, i + k - 1), Upper)
    THEN ShowIdDate(text, i, i + k,
                    AfterSeparator(text, i + k, sep, spaced), sep, spaced)
    ELSE Nothing

\* The same with [A-Z]{2,3}: three letters are tried before two
ShowIdMatchAt(text, i, sep, spaced) ==
    FirstOf(ShowIdMatchOf(text, i, 3, sep, spaced), Nothing,
            ShowIdMatchOf(text, i, 2, sep, spaced))

\* re.search from position i on
RECURSIVE ShowIdSearchFrom(_, _, _, _)
ShowIdSearchFrom(text, i, sep, spaced) ==
    IF i > Len(text) THEN Nothing
    ELSE FirstOf(ShowIdMatchAt(text, i, sep, spaced), Nothing,
                 ShowIdSearchFrom(text, i + 1, sep, spaced))

\* re.search(pattern, text)
ShowIdSearch(text, sep, spaced) == ShowIdSearchFrom(text, 1, sep, spaced)

\* `patterns` of _extract_show_id_enhanced: the separator, whether \s*
\* stands around it, and whether the pattern has more than one group
DirectIdPatterns ==
    << [sep |-> "_", spaced |-> FALSE, grouped |-> FALSE],
       [sep |-> "_", spaced |-> TRUE,  grouped |-> TRUE],
       [sep |-> "-", spaced |-> FALSE, grouped |-> TRUE] >>

\* What _extract_show_id_enhanced returns for a match: group 1, or
\* '_'.join(g for g in match.groups() if g); None for no match
ShowIdOf(match, grouped) ==
    IF match = Nothing THEN None
    ELSE IF ~grouped THEN match[1].whole
    ELSE match[1].city \o "_" \o match[1].date
         \o (IF match[1].sequence = "" THEN "" ELSE "_" \o match[1].sequence)

\* The loop over `patterns`, from the p-th pattern on
RECURSIVE ExtractByPattern(_, _)
ExtractByPattern(text_upper, p) ==
    IF p > Len(DirectIdPatterns) THEN None
    ELSE FirstOf(ShowIdOf(ShowIdSearch(text_upper, DirectIdPatterns[p].sep,
                                       DirectIdPatterns[p].spaced),
                          DirectIdPatterns[p].grouped),
                 None, ExtractByPattern(text_upper, p + 1))

\* _extract_show_id_enhanced
ExtractShowIdEnhanced(text) ==
    IF text = "" THEN None ELSE ExtractByPattern(MapUpper(text), 1)

\* _extract_show_id_from_text of app.py
ExtractShowIdFromText(text) ==
    ShowIdOf(ShowIdSearch(MapUpper(text), "_", FALSE), FALSE)

\* The pattern 'legacy_full' of legacy_patterns,
\*   US-([A-Z]{2,})-Sales-\d{4}\s*-\s*(Interest|Target)\s*-?\s*(\d+)?
\* followed from position i: Nothing, or <<groups 1 and 3>>, "" standing
\* for a group that is None.

\* (\d+)? at h
LegacyGroups(text, low, a, b, h) ==
    <<[city     |-> Sub(text, a, b - 1),
       show_num |-> Sub(text, h, SpanEnd(low, h, Digit) - 1)]>>

\* \s*-?\s* at f
LegacySequence(text, low, a, b, f) ==
    LegacyGroups(text, low, a, b,
                 SpanEnd(low, IF Ch(low, f) = "-" THEN f + 1 ELSE f,
                         WhiteSpace))

\* (Interest|Target) at e
LegacyAudience(text, low, a, b, e) ==
    IF StartsAt(low, e, "interest")
    THEN LegacySequence(text, low, a, b, SpanEnd(low, e + 8, WhiteSpace))
    ELSE IF StartsAt(low, e, "target")
    THEN LegacySequence(text, low, a, b, SpanEnd(low, e + 6, WhiteSpace))
    ELSE Nothing

\* -\s* at d
LegacyDash(text, low, a, b, d) ==
    IF Ch(low, d) = "-"
    THEN LegacyAudience(text, low, a, b, SpanEnd(low, d + 1, WhiteSpace))
    ELSE Nothing

\* -Sales-\d{4}\s* behind the letters from a to b - 1
LegacySales(text, low, a, b) ==
    IF b - a >= 2 /\ StartsAt(low, b, "-sales-") /\ FourDigitsAt(low, b + 7)
    THEN LegacyDash(text, low, a, b, SpanEnd(low, b + 11, WhiteSpace))
    ELSE Nothing

LegacyFullAt(text, low, i) ==
    IF StartsAt(low, i, "us-")
    THEN LegacySales(text, low, i + 3, SpanEnd(low, i + 3, Lower))
    ELSE Nothing

RECURSIVE LegacyFullFrom(_, _, _)
LegacyFullFrom(text, low, i) ==
    IF i > Len(text) THEN Nothing
    ELSE FirstOf(LegacyFullAt(text, low, i), Nothing,
                 LegacyFullFrom(text, low, i + 1))

\* re.search(pattern, merged_text, re.IGNORECASE) for 'legacy_full'
LegacyFullSearch(text) == LegacyFullFrom(text, MapLower(text), 1)

\* [_\s]
TourSeparators == WhiteSpace \cup {"_"}

\* The pattern 'tour_format', Tour[_\s]+([A-Za-z]+)[_\s]+(\d+), followed
\* from position i: Nothing, or <<groups 1 and 2>>.

\* (\d+) at c, behind the separators that begin at b
TourGroups(text, low, a, b, c) ==
    IF c > b /\ Ch(low, c) \in Digit
    THEN <<[city     |-> Sub(text, a, b - 1),
            show_num |-> Sub(text, c, SpanEnd(low, c, Digit) - 1)]>>
    ELSE Nothing

\* [_\s]+ at b, behind the letters that begin at a
TourSequence(text, low, a, b) ==
    IF b > a THEN TourGroups(text, low, a, b, SpanEnd(low, b, TourSeparators))
    ELSE Nothing

\* ([A-Za-z]+) at a, behind the separators that begin at s
TourCity(text, low, s, a) ==
    IF a > s THEN TourSequence(text, low, a, SpanEnd(low, a, Lower))
    ELSE Nothing

TourFormatAt(text, low, i) ==
    IF StartsAt(low, i, "tour")
    THEN TourCity(text, low, i + 4, SpanEnd(low, i + 4, TourSeparators))
    ELSE Nothing

RECURSIVE TourFormatFrom(_, _, _)
TourFormatFrom(text, low, i) ==
    IF i > Len(text) THEN Nothing
    ELSE FirstOf(TourFormatAt(text, low, i), Nothing,
                 TourFormatFrom(text, low, i + 1))

\* re.search(pattern, merged_text, re.IGNORECASE) for 'tour_format'
TourFormatSearch(text) == TourFormatFrom(text, MapLower(text), 1)

\* The loop over legacy_patterns: the first match of 'legacy_full' or of
\* 'tour_format', in the order of the list. A match of 'legacy_short' or of
\* 'show_id_direct' has no branch and the loop goes on.
LegacyMatch(text) ==
    FirstOf(LegacyFullSearch(text), Nothing, TourFormatSearch(text))

\* _normalize_text
NormalizeText(text) == LowerAlnum(text)

\* An entry of show_lookup: a city key and its sequences, in insertion order
City(city_key, sequences) == [city_key |-> city_key, sequences |-> sequences]

Show(seq, show_id) == [seq |-> seq, show_id |-> show_id]

\* sequences[seq] if seq in sequences, else next(iter(sequences.values())),
\* None when there is no sequence
SequenceOrFirst(sequences, seq) ==
    IF \E i \in 1..Len(sequences) : sequences[i].seq = seq
    THEN sequences[CHOOSE i \in 1..Len(sequences) :
                       sequences[i].seq = seq].show_id
    ELSE IF sequences # <<>> THEN sequences[1].show_id
    ELSE None

\* The sequences of the first city among `found`, None when there is none
FirstCity(lookup, found, seq) ==
    IF found = {} THEN None
    ELSE SequenceOrFirst(lookup[Leftmost(found)].sequences, seq)

\* _lookup_by_city_and_sequence
LookupByCityAndSequence(city, sequence, lookup) ==
    FirstCity(lookup,
              {i \in 1..Len(lookup) :
                  /\ lookup[i].city_key # ""
                  /\ Contains(lookup[i].city_key, NormalizeText(city))},
              IF sequence # "" THEN DigitsToNat(sequence) ELSE 1)

\* (\d{1,2}) at position i: the digits, "" when there is none
OneOrTwoDigits(text, i) ==
    IF Ch(text, i) \notin Digit THEN ""
    ELSE IF Ch(text, i + 1) \in Digit THEN Sub(text, i, i + 1)
    ELSE Sub(text, i, i)

\* #\s*(\d{1,2}) searched from position i on: group 1 of the first match,
\* "" when there is none
RECURSIVE HashSequenceFrom(_, _)
HashSequenceFrom(text, i) ==
    IF i > Len(text) THEN ""
    ELSE IF Ch(text, i) # "#" THEN HashSequenceFrom(text, i + 1)
    ELSE FirstOf(OneOrTwoDigits(text, SpanEnd(text, i + 1, WhiteSpace)), "",
                 HashSequenceFrom(text, i + 1))

\* (\d{1,2})\b at position i: two digits before a boundary, or else one
DigitsBeforeBoundary(text, i) ==
    IF /\ Ch(text, i) \in Digit /\ Ch(text, i + 1) \in Digit
       /\ Ch(text, i + 2) \notin WordChars
    THEN Sub(text, i, i + 1)
    ELSE IF Ch(text, i) \in Digit /\ Ch(text, i + 1) \notin WordChars
    THEN Sub(text, i, i)
    ELSE ""

\* \b(?:show|s)(\d{1,2})\b at position i: group 1, "" when it does not
\* match (behind "show" the alternative "s" meets an "h" and fails)
ShowSequenceAt(text, i) ==
    IF Ch(text, i - 1) \in WordChars THEN ""
    ELSE IF StartsAt(text, i, "show") THEN DigitsBeforeBoundary(text, i + 4)
    ELSE IF StartsAt(text, i, "s") THEN DigitsBeforeBoundary(text, i + 1)
    ELSE ""

RECURSIVE ShowSequenceFrom(_, _)
ShowSequenceFrom(text, i) ==
    IF i > Len(text) THEN ""
    ELSE FirstOf(ShowSequenceAt(text, i), "", ShowSequenceFrom(text, i + 1))

\* group 1 of the first of #\s*(\d{1,2}) and \b(?:show|s)(\d{1,2})\b that
\* matches text.lower(), "" when neither does
SequenceDigits(low) ==
    FirstOf(HashSequenceFrom(low, 1), "", ShowSequenceFrom(low, 1))

\* The sequence number _fallback_show_match of app.py reads from the text
SequenceNumber(digits) == IF digits # "" THEN DigitsToNat(digits) ELSE 1

\* The cities of _fallback_show_match of app.py: those whose key is in the
\* normalized text
CitiesIn(normalized_text, lookup) ==
    {i \in 1..Len(lookup) :
        /\ lookup[i].city_key # ""
        /\ Contains(normalized_text, lookup[i].city_key)}

\* _fallback_show_match of app.py
FallbackShowMatch(text, lookup) ==
    FirstCity(lookup, CitiesIn(NormalizeText(text), lookup),
              SequenceNumber(SequenceDigits(MapLower(text))))

\* The sequence number _fallback_show_match of optimized-ads-analyzer.py
\* reads from the text: the first of seq_patterns that matches
SequenceNumberV4(digits, low) ==
    IF digits # "" THEN DigitsToNat(digits)
    ELSE IF Contains(low, "2nd") \/ Contains(low, "second") THEN 2
    ELSE IF Contains(low, "3rd") \/ Contains(low, "third") THEN 3
    ELSE IF Contains(low, "4th") \/ Contains(low, "fourth") THEN 4
    ELSE 1

\* The cities of the best score in _fallback_show_match of
\* optimized-ads-analyzer.py, the score of a city being the length of its
\* key when the key is in the normalized text
BestCities(matching, lookup) ==
    {i \in matching :
        \A j \in matching : Len(lookup[j].city_key) <= Len(lookup[i].city_key)}

\* _fallback_show_match of optimized-ads-analyzer.py: the first city of the
\* best score
FallbackShowMatchV4(text, lookup) ==
    IF text = "" THEN None
    ELSE FirstCity(lookup,
                   BestCities(CitiesIn(NormalizeText(text), lookup), lookup),
                   SequenceNumberV4(SequenceDigits(MapLower(text)),
                                    MapLower(text)))

\* text_candidates of a row
TextCandidates(row) == <<row.campaign_name, row.ad_set_name, row.ad_name>>

\* " ".join(texts)
RECURSIVE JoinSpace(_)
JoinSpace(texts) ==
    IF texts = <<>> THEN ""
    ELSE IF Len(texts) = 1 THEN texts[1]
    ELSE texts[1] \o " " \o JoinSpace(Tail(texts))

\* The loop over text_candidates from the i-th on: the first show id
\* _extract_show_id_enhanced gives for a candidate that is neither empty
\* nor "nan", None when there is none
RECURSIVE DirectShowIdFrom(_, _)
DirectShowIdFrom(candidates, i) ==
    IF i > Len(candidates) THEN None
    ELSE IF candidates[i] \in {"", "nan"}
    THEN DirectShowIdFrom(candidates, i + 1)
    ELSE FirstOf(ExtractShowIdEnhanced(candidates[i]), None,
                 DirectShowIdFrom(candidates, i + 1))

\* merged_text of _match_show_identifier (app.py)
MergedText(row) ==
    JoinSpace(SelectSeq(TextCandidates(row), LAMBDA t : t # ""))

\* merged_text of _match_show_identifier_enhanced
MergedTextV4(row) == JoinSpace(TextCandidates(row))

\* The return of _match_show_identifier_enhanced, given the show id of the
\* candidates and the match of the legacy patterns
ReturnOfEnhanced(show_id, legacy, merged_text, lookup) ==
    IF show_id # None THEN [site |-> "direct", show_id |-> show_id]
    ELSE IF legacy # Nothing
    THEN [site    |-> "legacy",
          show_id |-> LookupByCityAndSequence(legacy[1].city,
                                              legacy[1].show_num, lookup)]
    ELSE [site    |-> "fallback",
          show_id |-> FallbackShowMatchV4(merged_text, lookup)]

\* _match_show_identifier_enhanced: the return site and the show id returned
MatchShowIdentifierEnhanced(row, lookup) ==
    ReturnOfEnhanced(DirectShowIdFrom(TextCandidates(row), 1),
                     LegacyMatch(MergedTextV4(row)), MergedTextV4(row), lookup)

\* The return of _match_show_identifier, given the merged text and its show id
ReturnOf(merged_text, show_id, lookup) ==
    IF merged_text = "" THEN [site |-> "no_text", show_id |-> None]
    ELSE IF show_id # None THEN [site |-> "direct", show_id |-> show_id]
    ELSE [site    |-> "fallback",
          show_id |-> FallbackShowMatch(merged_text, lookup)]

\* _match_show_identifier of app.py: the return site and the show id returned
MatchShowIdentifier(row, lookup) ==
    ReturnOf(MergedText(row), ExtractShowIdFromText(MergedText(row)), lookup)

\* enrich_ads_dataframe of optimized-ads-analyzer.py, lines 573-576:
\* "high" if x and "_" in x else "low" if x else "none"
MatchConfidence(x) ==
    IF x # None /\ x # "" /\ Contains(x, "_") THEN "high"
    ELSE IF x # None /\ x # "" THEN "low"
    ELSE "none"

\* enrich_ads_dataframe with the unmatched rows left out: the frame keeps
\* only the rows the matcher gave a show
EnrichAdsDataframeDropsUnmatched(df, lookup) ==
    IF df = <<>> THEN df
    ELSE SelectSeq([i \in 1..Len(df) |->
                       [matched_show_id |->
                           MatchShowIdentifier(df[i], lookup).show_id]
                       @@ df[i]],
                   LAMBDA row : row.matched_show_id # None)

\* enrich_ads_dataframe of app.py on a frame that has its campaign_name,
\* ad_set_name and ad_name columns: an empty frame is returned as it is;
\* otherwise every row gets the matched_show_id _match_show_identifier
\* gives it with the lookup built from the sales table
EnrichAdsDataframe(df, lookup) ==
    IF df = <<>> THEN df
    ELSE [i \in 1..Len(df) |->
             [matched_show_id |-> MatchShowIdentifier(df[i], lookup).show_id]
             @@ df[i]]

\* A row of a days report: its three text columns and its funnel columns
DayRow(campaign_name, ad_set_name, ad_name, spend, clicks, purchases) ==
    [campaign_name |-> campaign_name, ad_set_name |-> ad_set_name,
     ad_name |-> ad_name, spend |-> spend, impressions |-> Num(1000),
     clicks |-> clicks, lp_views |-> Num(20), add_to_cart |-> Num(5),
     purchases |-> purchases]

\* Rows of a days report: one naming its show, one naming only the city and
\* the night, one naming the city in the ad set, one naming no show, and
\* one without any text
DayRowPool ==
    {DayRow("WDC_0927_S2 promo", "", "", Num(100), Num(40), Num(2)),
     DayRow("wdc second night", "", "", Num(150), Num(60), Num(3)),
     DayRow("", "Boston show2", "", Rat(805, 10), Num(9), Num(0)),
     DayRow("brand awareness", "", "", Num(10), Num(3), Num(1)),
     DayRow("", "", "", Num(7), Num(1), Num(1))}

CampaignNames ==
    {"US-WDC-Sales-0927-Interest-12", "WDC_0927_S2 promo", "NYC _ 1105 launch",
     "BOS-1010-S2 retarget", "Tour_Boston_2", "Boston #2 lookalike",
     "wdc second night", "new york show2", ""}

AdSetNames == {"", "nan", "Boston show2", "wdc night"}

AdNames == {"", "WDC_0927"}

\* The lookups _build_show_lookup gives for no sales table, for the shows of
\* one city, for the shows of two, and for two cities of which the first
\* has a key that is part of the key of the second
ShowLookups ==
    {<<>>,
     <<City("wdc", <<Show(1, "WDC_0927"), Show(2, "WDC_0927_S2")>>)>>,
     <<City("boston", <<Show(2, "BOS_1010_S2")>>),
       City("wdc", <<Show(1, "WDC_0927"), Show(2, "WDC_0927_S2")>>)>>,
     <<City("york", <<Show(1, "YRK_0315")>>),
       City("newyork", <<Show(1, "NYC_1105"), Show(2, "NYC_1105_S2")>>)>>}

\* The rows the model matches
AdRows ==
    [campaign_name : CampaignNames, ad_set_name : AdSetNames,
     ad_name : AdNames]

---------------------------------------------------------------------------
\* The show lookup of app.py and optimized-ads-analyzer.py

\* A row of the sales table as _build_show_lookup reads it: city (None when
\* missing), show_sequence (NaN when the show id has no _S suffix) and
\* show_id
SalesRow(city, show_sequence, show_id) ==
    [city |-> city, show_sequence |-> show_sequence, show_id |-> show_id]

\* temp["city"].fillna("").apply(self._normalize_text)
NormalizedCity(row) ==
    IF row.city = None THEN "" ELSE NormalizeText(row.city)

\* temp["show_sequence"].fillna(1).astype(int)
SequenceOf(row) ==
    IF row.show_sequence = NaN THEN 1
    ELSE row.show_sequence.n \div row.show_sequence.d

\* sequences[seq] = show_id on a dict: the value of an existing key is
\* replaced in place, a new key is appended
SetSequence(sequences, seq, show_id) ==
    IF \E i \in 1..Len(sequences) : sequences[i].seq = seq
    THEN [i \in 1..Len(sequences) |->
             IF sequences[i].seq = seq THEN Show(seq, show_id)
             ELSE sequences[i]]
    ELSE Append(sequences, Show(seq, show_id))

\* lookup.setdefault(city_key, {})[sequence] = show_id
SetShow(lookup, city_key, seq, show_id) ==
    IF \E c \in 1..Len(lookup) : lookup[c].city_key = city_key
    THEN [c \in 1..Len(lookup) |->
             IF lookup[c].city_key = city_key
             THEN City(city_key,
                       SetSequence(lookup[c].sequences, seq, show_id))
             ELSE lookup[c]]
    ELSE Append(lookup, City(city_key, <<Show(seq, show_id)>>))

\* Sales rows: two shows of the same city without a sequence suffix, a
\* second night, a show of another city and a row without a city
SalesRowPool ==
    {SalesRow("Washington DC", NaN, "WDC_0927"),
     SalesRow("Washington DC", NaN, "WDC_1004"),
     SalesRow("Washington DC", Num(2), "WDC_0927_S2"),
     SalesRow("Boston", Num(2), "BOS_1010_S2"),
     SalesRow(None, NaN, "LA_0101")}

---------------------------------------------------------------------------
\* The funnel summary of app.py

\* An enriched ad row: the show it was matched to (None when unmatched) and
\* the six funnel columns, floats after pd.to_numeric (NaN when coerced)
AdRecord(matched_show_id, spend, impressions, clicks, lp_views, add_to_cart, purchases) ==
    [matched_show_id |-> matched_show_id, spend |-> spend,
     impressions |-> impressions, clicks |-> clicks, lp_views |-> lp_views,
     add_to_cart |-> add_to_cart, purchases |-> purchases]

\* df.groupby("matched_show_id", dropna=False): every key, None included
GroupKeysKeepNull(df) == {df[i].matched_show_id : i \in 1..Len(df)}

\* df.groupby("matched_show_id", dropna=True): the keys of the groups
GroupKeys(df) == {df[i].matched_show_id : i \in 1..Len(df)} \ {None}

\* .agg({field: "sum"}) of one group: the rows are added in frame order, a
\* NaN is skipped
RECURSIVE GroupSum(_, _, _, _)
GroupSum(df, key, field, i) ==
    IF i > Len(df) THEN Num(0)
    ELSE IF df[i].matched_show_id = key /\ df[i][field] # NaN
    THEN RatAdd(df[i][field], GroupSum(df, key, field, i + 1))
    ELSE GroupSum(df, key, field, i + 1)

\* The dataclass FunnelSummary
FunnelSummary(show_id, spend, impressions, clicks, lp_views, add_to_cart, purchases) ==
    [show_id |-> show_id, spend |-> spend, impressions |-> impressions,
     clicks |-> clicks, lp_views |-> lp_views, add_to_cart |-> add_to_cart,
     purchases |-> purchases]

\* FunnelSummary.clicks_per_ticket
ClicksPerTicket(summary) ==
    IF summary.purchases.n # 0
    THEN RatDiv(summary.clicks, summary.purchases)
    ELSE Num(0)

\* FunnelSummary.lp_views_per_ticket
LpViewsPerTicket(summary) ==
    IF summary.purchases.n # 0
    THEN RatDiv(summary.lp_views, summary.purchases)
    ELSE Num(0)

\* FunnelSummary.add_to_cart_per_ticket
AddToCartPerTicket(summary) ==
    IF summary.purchases.n # 0
    THEN RatDiv(summary.add_to_cart, summary.purchases)
    ELSE Num(0)

\* calculate_funnel_summary: the dict of summaries, a function of show id
CalculateFunnelSummary(df) ==
    IF df = <<>> THEN <<>>
    ELSE [show_id \in {key \in GroupKeys(df) : key # ""} |->
             FunnelSummary(show_id,
                           GroupSum(df, show_id, "spend", 1),
                           GroupSum(df, show_id, "impressions", 1),
                           GroupSum(df, show_id, "clicks", 1),
                           GroupSum(df, show_id, "lp_views", 1),
                           GroupSum(df, show_id, "add_to_cart", 1),
                           GroupSum(df, show_id, "purchases", 1))]

\* Enriched ad rows: two of WDC_0927 (spend 100 and 150, purchases 2 and 3),
\* one of another show without purchases, one unmatched, and one whose
\* spend and purchases were coerced to NaN
FirstWdcAd ==
    AdRecord("WDC_0927", Num(100), Num(1000), Num(40), Num(20), Num(5),
             Num(2))

SecondWdcAd ==
    AdRecord("WDC_0927", Num(150), Num(2000), Num(60), Num(30), Num(7),
             Num(3))

NycAd == AdRecord("NYC_1105", Rat(805, 10), Num(500), Num(9), Num(4), Num(1),
                  Num(0))

UnmatchedAd == AdRecord(None, Num(10), Num(100), Num(3), Num(1), Num(0),
                        Num(1))

CoercedAd == AdRecord("WDC_0927", NaN, Num(300), Num(5), Num(2), Num(1), NaN)

AdRecordPool == {FirstWdcAd, SecondWdcAd, NycAd, UnmatchedAd, CoercedAd}

---------------------------------------------------------------------------
\* The sheets the model reads

\* The example row of the specification's scenario: 16 cells
ExampleRow ==
    <<"WDC_0927", "2025-09-27", "2025-09-01", "27.Washington DC", "5000",
      "100", "20", "10", "50", "0", "1000", "1200", "500", "4500", "4.0%",
      "...">>

\* The example row made 18 cells wide
ExampleRow18 == ExampleRow \o <<"", "">>

\* A full show row: a sequence suffix, an amount in reais, empty cells
ShowRow ==
    <<" NYC_1004_S2 ", "2025-10-04", "2025-09-02", "4.New York", "1,200",
      "", "0", "n/a", "5", "", "7", "3", "R$ 1.000,50", "400", "800",
      "33,3%", "12.50", "on sale">>

\* A show row whose show_name cell holds only a blank
BlankNameRow ==
    <<"WDC_0927", "2025-09-27", "2025-09-03", " ", "5000", "", "", "", "",
      "", "", "9", "", "520", "4480", "", "", "">>

\* A wide row that is show data only by its date-like second cell
UnlabelledRow ==
    <<"Total", "2025-09-27", "", "All shows", "9000", "", "", "", "", "",
      "", "2", "", "900", "8100", "", "", "">>

RowPool ==
    << <<"October">>, <<"*October*">>, <<"endRow">>, <<"1371 (+8) 1379">>,
       <<"Show ID", "Show Date">>, <<"Total">>, << >>,
       ExampleRow, ExampleRow18, ShowRow, BlankNameRow, UnlabelledRow >>

MaxRows == 3

\* The sheets: every sequence of at most MaxRows rows of the pool
Sheets == UNION {[1..n -> {RowPool[k] : k \in 1..Len(RowPool)}] : n \in 0..MaxRows}

---------------------------------------------------------------------------
\* State

VARIABLES
    raw_data,                    \* load_data: the rows of the CSV export
    row_idx,                     \* _analyze_rows_minutely: the row being read
    current_month,               \* _analyze_rows_minutely: the month context
    line_type,                   \* _analyze_rows_minutely: the last classification
    processed_shows,             \* _analyze_rows_minutely: the snapshots so far
    load_pc,                     \* where load_data stands
    sales_df,                    \* load_data's result: Nothing, or <<frame>>
    exchange_rates,              \* self.exchange_rates: Nothing, or <<table>>
    exchange_rates_last_updated, \* self.exchange_rates_last_updated, <<hour>>
    utcnow                       \* datetime.utcnow(), in hours

VARIABLES
    header_row,                  \* the headers of an ad report as read
    columns,                     \* df.columns of the ad report
    passes,                      \* applications of detect_and_normalize_columns
    app,                         \* the module whose functions run
    dataset_type                 \* Nothing, or <<the detected type>>

VARIABLES
    uploaded_files,              \* process_ads_files: the upload
    file_idx,                    \* process_ads_files: files handled so far
    data_by_type,                \* process_ads_files: type -> source file
    read_errors,                 \* process_ads_files: names of rejected files
    outcome                      \* process_ads_files: Nothing, or <<how it ended>>

\* One row of an ad report being matched to a show, the lookup built from
\* the sales table, the return site reached, the show id returned, and the
\* match_confidence column enrich_ads_dataframe adds for it
VARIABLES ad_row, show_lookup, match_pc, matched_show_id, match_confidence

sheetVars ==
    <<raw_data, row_idx, current_month, line_type, processed_shows, load_pc,
      sales_df>>

rateVars == <<exchange_rates, exchange_rates_last_updated, utcnow>>

headerVars == <<header_row, columns, passes, app, dataset_type>>

uploadVars == <<uploaded_files, file_idx, data_by_type, read_errors, outcome>>

matchVars ==
    <<ad_row, show_lookup, match_pc, matched_show_id, match_confidence>>

\* The state of the ad-report pipeline
adsVars == <<headerVars, uploadVars, matchVars>>

\* The ad rows given to calculate_funnel_summary and the summaries returned;
\* latest is the frame get_data_summary summarizes (Nothing before the call)
VARIABLES ads_df, funnel_summary, days_df, enrich_pc, latest

\* The sales timeline of the dashboard: the frame and the show given to
\* _build_sales_timeline, today's date, the daily frame it aggregates
\* (Nothing before), the running total and the list of its loop, and the
\* frame it returns (Nothing before the return)
VARIABLES timeline_df, selected_show_id, today, aggregated, running_total,
          cumulative, timeline

timelineVars ==
    <<timeline_df, selected_show_id, today, aggregated, running_total,
      cumulative, timeline>>

funnelVars ==
    <<ads_df, funnel_summary, days_df, enrich_pc, latest, timelineVars>>

\* The sales rows _build_show_lookup reads, the row it is at, and the lookup
\* it builds (Nothing before the call)
VARIABLES temp, temp_idx, built_lookup

lookupVars == <<temp, temp_idx, built_lookup>>

\* The calls made to the exchange-rate cache: how many, how the request of
\* the last _ensure_exchange_rates ended (None when it sent none, "success"
\* when a payload was stored, "failure" otherwise), and the last conversion
\* asked of _convert_to_usd with its result (Nothing before the first)
VARIABLES rate_calls, refresh_outcome, converted

callVars == <<rate_calls, refresh_outcome, converted>>

\* Concurrent callers of _ensure_exchange_rates: the statement each is at,
\* the payload each has received, and the caller whose refresh wrote the
\* table and the one whose refresh wrote the timestamp ("init" for what
\* the connector held before)
VARIABLES caller_pc, caller_payload, table_writer, stamp_writer

raceVars == <<caller_pc, caller_payload, table_writer, stamp_writer>>

\* The state of the analyses made of the ingested tables
analysisVars == <<funnelVars, lookupVars, callVars, raceVars>>

vars == <<sheetVars, rateVars, adsVars, analysisVars>>

\* No timeline is being built
IdleTimeline ==
    /\ timeline_df = <<>>
    /\ selected_show_id = None
    /\ today = NaT
    /\ aggregated = Nothing
    /\ running_total = Num(0)
    /\ cumulative = <<>>
    /\ timeline = Nothing

\* No funnel summary is being made
IdleFunnel ==
    /\ ads_df = <<>>
    /\ funnel_summary = Nothing
    /\ days_df = <<>>
    /\ enrich_pc = "start"
    /\ latest = Nothing
    /\ IdleTimeline

\* No lookup is being built
IdleLookup ==
    /\ temp = <<>>
    /\ temp_idx = 0
    /\ built_lookup = Nothing

\* No call has been made to the cache
IdleCalls ==
    /\ rate_calls = 0
    /\ refresh_outcome = None
    /\ converted = Nothing

\* No caller is in _ensure_exchange_rates
IdleRace ==
    /\ caller_pc = <<>>
    /\ caller_payload = <<>>
    /\ table_writer = "init"
    /\ stamp_writer = "init"

IdleAnalysis == IdleFunnel /\ IdleLookup /\ IdleCalls /\ IdleRace

\* No ad report is being resolved
IdleHeaders ==
    /\ header_row = <<>>
    /\ columns = <<>>
    /\ passes = 0
    /\ app = None
    /\ dataset_type = Nothing

\* No upload is being processed
IdleUpload ==
    /\ uploaded_files = <<>>
    /\ file_idx = 0
    /\ data_by_type = <<>>
    /\ read_errors = <<>>
    /\ outcome = Nothing

\* No row is being matched
IdleMatch ==
    /\ ad_row = [campaign_name |-> "", ad_set_name |-> "", ad_name |-> ""]
    /\ show_lookup = <<>>
    /\ match_pc = "start"
    /\ matched_show_id = Nothing
    /\ match_confidence = Nothing

IdleAds == IdleHeaders /\ IdleUpload /\ IdleMatch

\* PublicSheetsConnector.__init__, before load_data is called
InitSheet ==
    /\ raw_data = <<>>
    /\ row_idx = 0
    /\ current_month = None
    /\ line_type = None
    /\ processed_shows = <<>>
    /\ load_pc = "init"
    /\ sales_df = Nothing

InitRates ==
    /\ exchange_rates = Nothing
    /\ exchange_rates_last_updated = Nothing
    /\ utcnow = 0

---------------------------------------------------------------------------
\* load_data (public_sheets_connector.py)

\* load_data, lines 88-98: the export is downloaded, the exchange rates are
\* ensured and the CSV is read into rows
LoadDataFetch ==
    /\ load_pc = "init"
    /\ \E sheet \in Sheets, fetched \in {Nothing, << <<RemoteRates>> >>} :
        LET cache == EnsureExchangeRates(exchange_rates,
                        exchange_rates_last_updated, utcnow, fetched)
        IN  /\ raw_data' = sheet
            /\ exchange_rates' = cache[1]
            /\ exchange_rates_last_updated' = cache[2]
    /\ load_pc' = "scan"
    /\ UNCHANGED <<row_idx, current_month, line_type, processed_shows,
                   sales_df, utcnow, adsVars, analysisVars>>

\* load_data with an empty frame for the None of line 112: a failed
\* download is reported as a sheet without shows
LoadDataFetchFailsEmptyFrame ==
    /\ load_pc = "init"
    /\ load_pc' = "failed"
    /\ sales_df' = << <<>> >>
    /\ UNCHANGED <<raw_data, row_idx, current_month, line_type,
                   processed_shows, rateVars, adsVars, analysisVars>>

\* load_data, lines 110-112: the download fails and load_data returns None
LoadDataFetchFails ==
    /\ load_pc = "init"
    /\ load_pc' = "failed"
    /\ sales_df' = Nothing
    /\ UNCHANGED <<raw_data, row_idx, current_month, line_type,
                   processed_shows, rateVars, adsVars, analysisVars>>

\* The row the scan stands at
Row == raw_data[row_idx + 1]

\* first_cell = str(row[0]).strip() if row[0] else ""
FirstCell(row) == IF row[1] # "" THEN Strip(row[1]) ELSE ""

Scanning == load_pc = "scan" /\ row_idx < Len(raw_data)

\* _analyze_rows_minutely, lines 122-123: an empty row is passed over
ScanEmptyRow ==
    /\ Scanning
    /\ Row = <<>>
    /\ row_idx' = row_idx + 1
    /\ UNCHANGED <<raw_data, current_month, line_type, processed_shows,
                   load_pc, sales_df, rateVars, adsVars, analysisVars>>

\* _analyze_rows_minutely, lines 133-136
ScanMonthHeader ==
    /\ Scanning
    /\ Row # <<>>
    /\ IdentifyLineType(FirstCell(Row), Row) = "month_header"
    /\ line_type' = "month_header"
    /\ current_month' = FirstCell(Row)
    /\ row_idx' = row_idx + 1
    /\ UNCHANGED <<raw_data, processed_shows, load_pc, sales_df, rateVars,
                   adsVars, analysisVars>>

\* _analyze_rows_minutely, lines 138-145
ScanShowData ==
    /\ Scanning
    /\ Row # <<>>
    /\ IdentifyLineType(FirstCell(Row), Row) = "show_data"
    /\ line_type' = "show_data"
    /\ LET show_data == ExtractShowData(Row, row_idx, current_month,
                                        exchange_rates)
       IN  processed_shows' =
               IF show_data # Nothing
               THEN Append(processed_shows, show_data[1])
               ELSE processed_shows
    /\ row_idx' = row_idx + 1
    /\ UNCHANGED <<raw_data, current_month, load_pc, sales_df, rateVars,
                   adsVars, analysisVars>>

\* _analyze_rows_minutely with the month taken from *Month* rows too: a
\* month_asterisk row sets the month context
ScanSkippedRowTakesMonth ==
    /\ Scanning
    /\ Row # <<>>
    /\ LET type == IdentifyLineType(FirstCell(Row), Row)
       IN  /\ type \notin {"month_header", "show_data", "end_row"}
           /\ line_type' = type
           /\ current_month' = IF type = "month_asterisk" THEN FirstCell(Row)
                               ELSE current_month
    /\ row_idx' = row_idx + 1
    /\ UNCHANGED <<raw_data, processed_shows, load_pc, sales_df, rateVars,
                   adsVars, analysisVars>>

\* _analyze_rows_minutely, lines 147-149, 151-156 and 158-159: summary
\* lines, helper rows and unrecognised rows are passed over
ScanSkippedRow ==
    /\ Scanning
    /\ Row # <<>>
    /\ LET type == IdentifyLineType(FirstCell(Row), Row)
       IN  /\ type \notin {"month_header", "show_data", "end_row"}
           /\ line_type' = type
    /\ row_idx' = row_idx + 1
    /\ UNCHANGED <<raw_data, current_month, processed_shows, load_pc,
                   sales_df, rateVars, adsVars, analysisVars>>

\* _analyze_rows_minutely with `continue` for `break` at line 154: the scan
\* goes on after endRow
ScanEndRowContinues ==
    /\ Scanning
    /\ Row # <<>>
    /\ IdentifyLineType(FirstCell(Row), Row) = "end_row"
    /\ line_type' = "end_row"
    /\ row_idx' = row_idx + 1
    /\ UNCHANGED <<raw_data, current_month, processed_shows, load_pc,
                   sales_df, rateVars, adsVars, analysisVars>>

\* _analyze_rows_minutely, lines 152-154: endRow breaks out of the loop
ScanEndRow ==
    /\ Scanning
    /\ Row # <<>>
    /\ IdentifyLineType(FirstCell(Row), Row) = "end_row"
    /\ line_type' = "end_row"
    /\ load_pc' = "parsed"
    /\ UNCHANGED <<raw_data, row_idx, current_month, processed_shows,
                   sales_df, rateVars, adsVars, analysisVars>>

\* _analyze_rows_minutely, lines 161-162: the rows are exhausted
ScanExhausted ==
    /\ load_pc = "scan"
    /\ row_idx = Len(raw_data)
    /\ load_pc' = "parsed"
    /\ UNCHANGED <<raw_data, row_idx, current_month, line_type,
                   processed_shows, sales_df, rateVars, adsVars, analysisVars>>

\* load_data, lines 102-108: the snapshots become the cleaned frame
LoadDataTransform ==
    /\ load_pc = "parsed"
    /\ sales_df' = <<CleanAndTransform(processed_shows)>>
    /\ load_pc' = "loaded"
    /\ UNCHANGED <<raw_data, row_idx, current_month, line_type,
                   processed_shows, rateVars, adsVars, analysisVars>>

Init == InitSheet /\ InitRates /\ IdleAds /\ IdleAnalysis

Next ==
    \/ LoadDataFetch
    \/ LoadDataFetchFails
    \/ ScanEmptyRow
    \/ ScanMonthHeader
    \/ ScanShowData
    \/ ScanSkippedRow
    \/ ScanEndRow
    \/ ScanExhausted
    \/ LoadDataTransform

\* One load_data call on a fresh connector
Spec == Init /\ [][Next]_vars

---------------------------------------------------------------------------
\* The consolidation of parsed snapshots (load_data, lines 102-108, on the
\* snapshots a finished scan left)

\* Report rows of one show: a later report, an earlier report without a
\* today_sold figure, a report without a report date
LaterReport ==
    <<"WDC_0927", "2025-09-27", "2025-09-02", "27.Washington DC", "5000",
      "", "", "", "", "", "", "3", "", "520", "4480", "", "", "">>

EarlierReport ==
    <<"WDC_0927", "2025-09-27", "2025-09-01", "27.Washington DC", "5000",
      "", "", "", "", "", "", "", "", "500", "4500", "", "", "">>

UndatedReport ==
    <<"WDC_0927", "2025-09-27", "", "27.Washington DC", "5000",
      "", "", "", "", "", "", "2", "", "510", "4490", "", "", "">>

\* A report row of a second show
OtherShowReport ==
    <<"NYC_1004", "2025-10-04", "2025-09-01", "4.New York", "1200",
      "", "", "", "", "", "", "5", "", "400", "800", "", "", "">>

\* A report row of a show of 1000 seats with a given total_sold cell
OccupancyReport(total_sold) ==
    <<"BOS_1010", "2025-10-10", "2025-09-01", "10.Boston", "1000",
      "", "", "", "", "", "", "1", "", total_sold, "", "", "", "">>

\* total_sold cells on both sides of each occupancy boundary, an oversold
\* show and an empty cell
TotalSoldCells ==
    {"0", "499", "500", "501", "749", "750", "899", "900", "1000", "1100", ""}

MaxMixed == 4

MaxSeries == 8

MaxGraded == 2

\* Sheets of report rows only: short ones over the four rows, long ones
\* over the two dated reports of one show, and short ones over the rows of
\* the show of 1000 seats
ReportSheets ==
    UNION ({[1..n -> {LaterReport, EarlierReport, UndatedReport,
                      OtherShowReport}] : n \in 0..MaxMixed}
           \cup {[1..n -> {LaterReport, EarlierReport}] : n \in 0..MaxSeries}
           \cup {[1..n -> {OccupancyReport(cell) : cell \in TotalSoldCells}] :
                    n \in 1..MaxGraded})

\* The state _analyze_rows_minutely leaves after it has scanned a sheet of
\* report rows, the rate cache holding the default table
InitConsolidate ==
    /\ raw_data \in ReportSheets
    /\ row_idx = Len(raw_data)
    /\ current_month = None
    /\ line_type = IF raw_data = <<>> THEN None ELSE "show_data"
    /\ processed_shows =
          [k \in 1..Len(raw_data) |->
              ExtractShowData(raw_data[k], k - 1, None,
                              <<DefaultExchangeRates>>)[1]]
    /\ load_pc = "parsed"
    /\ sales_df = Nothing
    /\ exchange_rates = <<DefaultExchangeRates>>
    /\ exchange_rates_last_updated = <<0>>
    /\ utcnow = 0
    /\ IdleAds /\ IdleAnalysis

\* summary = sheets_connector.get_data_summary(sales_data): the frame of the
\* latest snapshots the summary is computed from
GetDataSummary ==
    /\ load_pc = "loaded"
    /\ sales_df # Nothing
    /\ sales_df[1] # <<>>
    /\ latest = Nothing
    /\ latest' = <<LatestSnapshots(sales_df[1])>>
    /\ UNCHANGED <<sheetVars, rateVars, adsVars, ads_df, funnel_summary,
                   days_df, enrich_pc, timelineVars, lookupVars, callVars,
                   raceVars>>

NextConsolidate == LoadDataTransform \/ GetDataSummary

\* load_data from the end of the scan on
SpecConsolidate == InitConsolidate /\ [][NextConsolidate]_vars

---------------------------------------------------------------------------
\* Header resolution and dataset-type detection on one ad report

MaxHeaders == 3

MaxPasses == 2

\* The header rows: up to MaxHeaders distinct headers of the pool
HeaderRows ==
    UNION {{h \in [1..n -> HeaderPool] :
                \A i, j \in 1..n : i # j => h[i] # h[j]} : n \in 0..MaxHeaders}

\* A report with rows has been read by one of the three modules
InitHeaders ==
    /\ header_row \in HeaderRows
    /\ columns = header_row
    /\ passes = 0
    /\ app \in {"app", "v2", "validate_csv"}
    /\ dataset_type = Nothing
    /\ IdleUpload /\ IdleMatch /\ InitSheet /\ InitRates /\ IdleAnalysis

\* app.py: df = self.detect_and_normalize_columns(df)
NormalizeColumns ==
    /\ app = "app"
    /\ passes < MaxPasses
    /\ dataset_type = Nothing
    /\ columns' = DetectAndNormalizeColumns(columns, AliasIndex)
    /\ passes' = passes + 1
    /\ UNCHANGED <<header_row, app, dataset_type, uploadVars, matchVars,
                   sheetVars,
                   rateVars, analysisVars>>

\* v2/app.py: df = self.detect_and_normalize_columns(df)
NormalizeColumnsV2 ==
    /\ app = "v2"
    /\ passes < MaxPasses
    /\ dataset_type = Nothing
    /\ columns' = DetectAndNormalizeColumns(columns, AliasIndexV2)
    /\ passes' = passes + 1
    /\ UNCHANGED <<header_row, app, dataset_type, uploadVars, matchVars,
                   sheetVars,
                   rateVars, analysisVars>>

\* app.py: dataset_type = self.identify_dataset_type(df), on resolved columns
IdentifyType ==
    /\ app = "app"
    /\ passes > 0
    /\ dataset_type = Nothing
    /\ dataset_type' = <<IdentifyDatasetType(columns)>>
    /\ UNCHANGED <<header_row, columns, passes, app, uploadVars, matchVars,
                   sheetVars,
                   rateVars, analysisVars>>

\* v2/app.py: dataset_type = self.identify_dataset_type(df)
IdentifyTypeV2 ==
    /\ app = "v2"
    /\ passes > 0
    /\ dataset_type = Nothing
    /\ dataset_type' = <<IdentifyDatasetTypeV2(columns)>>
    /\ UNCHANGED <<header_row, columns, passes, app, uploadVars, matchVars,
                   sheetVars,
                   rateVars, analysisVars>>

\* v2/validate_csv.py: file_type = self._identify_file_type(actual_columns)
IdentifyFile ==
    /\ app = "validate_csv"
    /\ dataset_type = Nothing
    /\ dataset_type' = <<IdentifyFileType(columns)>>
    /\ UNCHANGED <<header_row, columns, passes, app, uploadVars, matchVars,
                   sheetVars,
                   rateVars, analysisVars>>

NextHeaders ==
    \/ NormalizeColumns
    \/ NormalizeColumnsV2
    \/ IdentifyType
    \/ IdentifyTypeV2
    \/ IdentifyFile

SpecHeaders == InitHeaders /\ [][NextHeaders]_vars

---------------------------------------------------------------------------
\* process_ads_files on an upload of ad reports, in app.py and in
\* optimization_v4/optimized-ads-analyzer.py

MaxFiles == 3

Uploads == UNION {[1..n -> UploadPool] : n \in 0..MaxFiles}

InitUpload ==
    /\ uploaded_files \in Uploads
    /\ file_idx = 0
    /\ data_by_type = <<>>
    /\ read_errors = <<>>
    /\ outcome = Nothing
    /\ app \in {"app", "v4"}
    /\ header_row = <<>>
    /\ columns = <<>>
    /\ passes = 0
    /\ dataset_type = Nothing
    /\ IdleMatch /\ InitSheet /\ InitRates /\ IdleAnalysis

\* The file the loop stands at
Uploaded == uploaded_files[file_idx + 1]

\* app.py lines 269-271 on a table: each of the three calls returns an
\* empty table as it is
ProcessedColumns(file) ==
    IF file.rows
    THEN NormalizeFunnelColumns(
             CalculateMissingKpis(
                 DetectAndNormalizeColumns(file.headers, AliasIndex)))
    ELSE file.headers

\* app.py line 273
DatasetTypeOf(file) == IdentifyDatasetType(ProcessedColumns(file))

\* identify_dataset_type of optimized-ads-analyzer.py
IdentifyDatasetTypeV4(file) ==
    LET cols == file.headers
        normalized == NormalizedColumns(cols)
    IN  IF ~file.rows THEN None
        ELSE IF {"timeofday", "timeofdayviewerstimezone", "hour"}
                    \cap normalized # {}
        THEN "days_time"
        ELSE IF /\ {"placement", "platform", "publisherplatform"}
                       \cap normalized # {}
                /\ {"deviceplatform", "impressiondevice", "device"}
                       \cap normalized # {}
        THEN "days_placement_device"
        ELSE IF /\ "date" \in normalized \/ "reportingstarts" \in normalized
                /\ {"placement", "timeofday", "hour", "device"}
                       \cap normalized = {}
        THEN "days"
        ELSE IF Len(cols) > 15 THEN "days"
        ELSE IF Len(cols) > 10 THEN "days_placement_device"
        ELSE "days_time"

\* optimized-ads-analyzer.py lines 459-473: the type of the table, inferred
\* from the file name when the table gives none
DatasetTypeOfV4(file) ==
    LET name == MapLower(file.name)
    IN  IF IdentifyDatasetTypeV4(file) # None THEN IdentifyDatasetTypeV4(file)
        ELSE IF Contains(name, "time") THEN "days_time"
        ELSE IF Contains(name, "placement") \/ Contains(name, "device")
        THEN "days_placement_device"
        ELSE "days"

InLoop == outcome = Nothing /\ file_idx < Len(uploaded_files)

\* data_by_type with `sources` stored under `type`
Stored(type, sources) ==
    [t \in DOMAIN data_by_type \cup {type} |->
        IF t = type THEN sources ELSE data_by_type[t]]

\* app.py, one turn of the loop, lines 261-279: the file is read, resolved,
\* typed and stored under its type, replacing an earlier file of the type
ProcessFile ==
    /\ app = "app"
    /\ InLoop
    /\ Uploaded.readable
    /\ DatasetTypeOf(Uploaded) # None
    /\ data_by_type' = Stored(DatasetTypeOf(Uploaded), <<Uploaded.name>>)
    /\ file_idx' = file_idx + 1
    /\ UNCHANGED <<uploaded_files, read_errors, outcome, headerVars,
                   matchVars, sheetVars, rateVars, analysisVars>>

\* app.py, one turn of the loop, lines 273-276: no type is found
ProcessUntypedFile ==
    /\ app = "app"
    /\ InLoop
    /\ Uploaded.readable
    /\ DatasetTypeOf(Uploaded) = None
    /\ read_errors' = Append(read_errors, Uploaded.name)
    /\ file_idx' = file_idx + 1
    /\ UNCHANGED <<uploaded_files, data_by_type, outcome, headerVars,
                   matchVars, sheetVars, rateVars, analysisVars>>

\* One turn of the loop in either module: reading the file raises
ProcessUnreadableFile ==
    /\ app \in {"app", "v4"}
    /\ InLoop
    /\ ~Uploaded.readable
    /\ read_errors' = Append(read_errors, Uploaded.name \o ": unreadable")
    /\ file_idx' = file_idx + 1
    /\ UNCHANGED <<uploaded_files, data_by_type, outcome, headerVars,
                   matchVars, sheetVars, rateVars, analysisVars>>

\* optimized-ads-analyzer.py, one turn of the loop, lines 447-484: the file
\* is typed and appended to the table of its type
ProcessFileV4 ==
    /\ app = "v4"
    /\ InLoop
    /\ Uploaded.readable
    /\ LET type == DatasetTypeOfV4(Uploaded)
       IN  data_by_type' =
               Stored(type, IF type \in DOMAIN data_by_type
                            THEN Append(data_by_type[type], Uploaded.name)
                            ELSE <<Uploaded.name>>)
    /\ file_idx' = file_idx + 1
    /\ UNCHANGED <<uploaded_files, read_errors, outcome, headerVars,
                   matchVars, sheetVars, rateVars, analysisVars>>

\* required_types - data_by_type.keys()
MissingTypes == RequiredTypes \ DOMAIN data_by_type

LoopDone == outcome = Nothing /\ file_idx = Len(uploaded_files)

\* app.py lines 283-289: a required type is missing, ValueError is raised
RaiseMissingFiles ==
    /\ app = "app"
    /\ LoopDone
    /\ MissingTypes # {}
    /\ outcome' = <<[raised |-> "ValueError", message |-> MissingFilesMessage]>>
    /\ UNCHANGED <<uploaded_files, file_idx, data_by_type, read_errors,
                   headerVars, matchVars, sheetVars, rateVars, analysisVars>>

\* app.py lines 290-298: every required type is there, the tables are
\* returned
ReturnTables ==
    /\ app = "app"
    /\ LoopDone
    /\ MissingTypes = {}
    /\ outcome' = <<[raised |-> None, message |-> ""]>>
    /\ UNCHANGED <<uploaded_files, file_idx, data_by_type, read_errors,
                   headerVars, matchVars, sheetVars, rateVars, analysisVars>>

\* ', '.join(names)
RECURSIVE Join(_)
Join(names) ==
    IF names = <<>> THEN ""
    ELSE IF Len(names) = 1 THEN names[1]
    ELSE names[1] \o ", " \o Join(Tail(names))

\* The orders in which a set of names can be iterated
Orders(set) ==
    {o \in [1..Cardinality(set) -> set] :
        \A i, j \in 1..Cardinality(set) : i # j => o[i] # o[j]}

\* optimized-ads-analyzer.py lines 490-491 and 496-508: the missing types
\* are named in a warning, in the iteration order of the set, and the tables
\* are returned
WarnMissingReportsV4 ==
    /\ app = "v4"
    /\ LoopDone
    /\ MissingTypes # {} /\ DOMAIN data_by_type # {}
    /\ \E order \in Orders(MissingTypes) :
          outcome' = <<[raised |-> None,
                        message |-> "Missing reports: " \o Join(order)
                                    \o ". Some features may be limited."]>>
    /\ UNCHANGED <<uploaded_files, file_idx, data_by_type, read_errors,
                   headerVars, matchVars, sheetVars, rateVars, analysisVars>>

\* optimized-ads-analyzer.py lines 490 and 496-508: no warning, the tables
\* are returned
ReturnTablesV4 ==
    /\ app = "v4"
    /\ LoopDone
    /\ MissingTypes = {} \/ DOMAIN data_by_type = {}
    /\ outcome' = <<[raised |-> None, message |-> ""]>>
    /\ UNCHANGED <<uploaded_files, file_idx, data_by_type, read_errors,
                   headerVars, matchVars, sheetVars, rateVars, analysisVars>>

NextUpload ==
    \/ ProcessFile
    \/ ProcessUntypedFile
    \/ ProcessUnreadableFile
    \/ ProcessFileV4
    \/ RaiseMissingFiles
    \/ ReturnTables
    \/ WarnMissingReportsV4
    \/ ReturnTablesV4

SpecUpload == InitUpload /\ [][NextUpload]_vars

---------------------------------------------------------------------------
\* Matching one row of an ad report to a show, in app.py and in
\* optimization_v4/optimized-ads-analyzer.py

InitMatch ==
    /\ ad_row \in AdRows
    /\ show_lookup \in ShowLookups
    /\ match_pc = "start"
    /\ matched_show_id = Nothing
    /\ match_confidence = Nothing
    /\ app \in {"app", "v4"}
    /\ header_row = <<>>
    /\ columns = <<>>
    /\ passes = 0
    /\ dataset_type = Nothing
    /\ IdleUpload /\ InitSheet /\ InitRates /\ IdleAnalysis

\* _match_show_identifier_enhanced, lines 333-341: a candidate text holds a
\* show id, which is returned
MatchEnhancedDirect ==
    /\ app = "v4"
    /\ match_pc = "start"
    /\ MatchShowIdentifierEnhanced(ad_row, show_lookup).site = "direct"
    /\ matched_show_id' =
           <<MatchShowIdentifierEnhanced(ad_row, show_lookup).show_id>>
    /\ match_pc' = "direct"
    /\ UNCHANGED <<ad_row, show_lookup, match_confidence, headerVars,
                   uploadVars, sheetVars, rateVars, analysisVars>>

\* _match_show_identifier_enhanced, lines 343-356: a legacy pattern gives a
\* city and a sequence, whose lookup is returned
MatchEnhancedLegacy ==
    /\ app = "v4"
    /\ match_pc = "start"
    /\ MatchShowIdentifierEnhanced(ad_row, show_lookup).site = "legacy"
    /\ matched_show_id' =
           <<MatchShowIdentifierEnhanced(ad_row, show_lookup).show_id>>
    /\ match_pc' = "legacy"
    /\ UNCHANGED <<ad_row, show_lookup, match_confidence, headerVars,
                   uploadVars, sheetVars, rateVars, analysisVars>>

\* _match_show_identifier_enhanced, line 359: the fallback match is returned
MatchEnhancedFallback ==
    /\ app = "v4"
    /\ match_pc = "start"
    /\ MatchShowIdentifierEnhanced(ad_row, show_lookup).site = "fallback"
    /\ matched_show_id' =
           <<MatchShowIdentifierEnhanced(ad_row, show_lookup).show_id>>
    /\ match_pc' = "fallback"
    /\ UNCHANGED <<ad_row, show_lookup, match_confidence, headerVars,
                   uploadVars, sheetVars, rateVars, analysisVars>>

\* _match_show_identifier of app.py: the row has no text, None is returned
MatchNoText ==
    /\ app = "app"
    /\ match_pc = "start"
    /\ MatchShowIdentifier(ad_row, show_lookup).site = "no_text"
    /\ matched_show_id' = <<MatchShowIdentifier(ad_row, show_lookup).show_id>>
    /\ match_pc' = "no_text"
    /\ UNCHANGED <<ad_row, show_lookup, match_confidence, headerVars,
                   uploadVars, sheetVars, rateVars, analysisVars>>

\* _match_show_identifier of app.py: the merged text holds a show id, which
\* is returned
MatchDirect ==
    /\ app = "app"
    /\ match_pc = "start"
    /\ MatchShowIdentifier(ad_row, show_lookup).site = "direct"
    /\ matched_show_id' = <<MatchShowIdentifier(ad_row, show_lookup).show_id>>
    /\ match_pc' = "direct"
    /\ UNCHANGED <<ad_row, show_lookup, match_confidence, headerVars,
                   uploadVars, sheetVars, rateVars, analysisVars>>

\* _match_show_identifier of app.py: the fallback match is returned
MatchFallback ==
    /\ app = "app"
    /\ match_pc = "start"
    /\ MatchShowIdentifier(ad_row, show_lookup).site = "fallback"
    /\ matched_show_id' = <<MatchShowIdentifier(ad_row, show_lookup).show_id>>
    /\ match_pc' = "fallback"
    /\ UNCHANGED <<ad_row, show_lookup, match_confidence, headerVars,
                   uploadVars, sheetVars, rateVars, analysisVars>>

\* enrich_ads_dataframe of optimized-ads-analyzer.py, lines 573-576: the
\* match_confidence column is computed from the matched_show_id column
AddMatchConfidence ==
    /\ app = "v4"
    /\ match_pc \in {"direct", "legacy", "fallback"}
    /\ match_confidence = Nothing
    /\ match_confidence' = <<MatchConfidence(matched_show_id[1])>>
    /\ UNCHANGED <<ad_row, show_lookup, match_pc, matched_show_id, headerVars,
                   uploadVars, sheetVars, rateVars, analysisVars>>

NextMatch ==
    \/ MatchEnhancedDirect
    \/ MatchEnhancedLegacy
    \/ MatchEnhancedFallback
    \/ AddMatchConfidence
    \/ MatchNoText
    \/ MatchDirect
    \/ MatchFallback

SpecMatch == InitMatch /\ [][NextMatch]_vars

---------------------------------------------------------------------------
\* The funnel summary of the enriched rows of a days report

MaxAds == 3

AdFrames == UNION {[1..n -> AdRecordPool] : n \in 0..MaxAds}

InitFunnel ==
    /\ ads_df \in AdFrames
    /\ funnel_summary = Nothing
    /\ days_df = <<>>
    /\ enrich_pc = "start"
    /\ latest = Nothing
    /\ IdleTimeline
    /\ InitSheet /\ InitRates /\ IdleAds /\ IdleLookup /\ IdleCalls
    /\ IdleRace

\* calculate_funnel_summary(enriched_days), called by process_ads_files
SummarizeFunnel ==
    /\ funnel_summary = Nothing
    /\ funnel_summary' = <<CalculateFunnelSummary(ads_df)>>
    /\ UNCHANGED <<ads_df, days_df, enrich_pc, latest, timelineVars, sheetVars, rateVars, adsVars,
                   lookupVars, callVars, raceVars>>

NextFunnel == SummarizeFunnel

SpecFunnel == InitFunnel /\ [][NextFunnel]_vars

---------------------------------------------------------------------------
\* Header resolution by app.py and by optimized-ads-analyzer.py

\* A report with rows has been read by one of the two modules
InitResolve ==
    /\ header_row \in HeaderRows
    /\ columns = header_row
    /\ passes = 0
    /\ app \in {"app", "v4"}
    /\ dataset_type = Nothing
    /\ IdleUpload /\ IdleMatch /\ InitSheet /\ InitRates /\ IdleAnalysis

\* optimized-ads-analyzer.py, line 459: dataset_type =
\* self.identify_dataset_type(df), on the headers as they were read
IdentifyTypeV4 ==
    /\ app = "v4"
    /\ passes = 0
    /\ dataset_type = Nothing
    /\ dataset_type' =
           <<IdentifyDatasetTypeV4(File("", TRUE, TRUE, columns))>>
    /\ UNCHANGED <<header_row, columns, passes, app, uploadVars, matchVars,
                   sheetVars, rateVars, analysisVars>>

\* optimized-ads-analyzer.py, line 462: df =
\* self.detect_and_normalize_columns(df, dataset_type); which columns
\* _is_likely_column_type accepts depends on the values of the table
NormalizeColumnsV4 ==
    /\ app = "v4"
    /\ passes = 0
    /\ dataset_type # Nothing
    /\ \E likely \in SUBSET (1..Len(columns)) :
          columns' = DetectAndNormalizeColumnsV4(columns, dataset_type[1],
                                                 likely)
    /\ passes' = passes + 1
    /\ UNCHANGED <<header_row, app, dataset_type, uploadVars, matchVars,
                   sheetVars, rateVars, analysisVars>>

NextResolve ==
    \/ NormalizeColumns
    \/ IdentifyTypeV4
    \/ NormalizeColumnsV4

SpecResolve == InitResolve /\ [][NextResolve]_vars

---------------------------------------------------------------------------
\* process_ads_files, lines 295-298: the days report is enriched and then
\* summarised

MaxDays == 3

DayFrames == UNION {[1..n -> DayRowPool] : n \in 0..MaxDays}

InitEnrich ==
    /\ days_df \in DayFrames
    /\ show_lookup \in ShowLookups
    /\ enrich_pc = "start"
    /\ latest = Nothing
    /\ IdleTimeline
    /\ ads_df = <<>>
    /\ funnel_summary = Nothing
    /\ ad_row = [campaign_name |-> "", ad_set_name |-> "", ad_name |-> ""]
    /\ match_pc = "start"
    /\ matched_show_id = Nothing
    /\ match_confidence = Nothing
    /\ IdleHeaders /\ IdleUpload /\ InitSheet /\ InitRates
    /\ IdleLookup /\ IdleCalls /\ IdleRace

\* enriched_days = self.enrich_ads_dataframe(data_by_type["days"], sales_df)
EnrichAds ==
    /\ enrich_pc = "start"
    /\ ads_df' = EnrichAdsDataframe(days_df, show_lookup)
    /\ enrich_pc' = "enriched"
    /\ UNCHANGED <<days_df, funnel_summary, latest, timelineVars, sheetVars, rateVars, adsVars,
                   lookupVars, callVars, raceVars>>

\* funnel_summary = self.calculate_funnel_summary(enriched_days)
SummarizeEnriched ==
    /\ enrich_pc = "enriched"
    /\ funnel_summary' = <<CalculateFunnelSummary(ads_df)>>
    /\ enrich_pc' = "summarized"
    /\ UNCHANGED <<ads_df, days_df, latest, timelineVars, sheetVars, rateVars, adsVars,
                   lookupVars, callVars, raceVars>>

NextEnrich == EnrichAds \/ SummarizeEnriched

SpecEnrich == InitEnrich /\ [][NextEnrich]_vars

---------------------------------------------------------------------------
\* Building the show lookup from the sales table

MaxShows == 3

SalesFrames == UNION {[1..n -> SalesRowPool] : n \in 0..MaxShows}

InitLookup ==
    /\ temp \in SalesFrames
    /\ temp_idx = 0
    /\ built_lookup = Nothing
    /\ app \in {"app", "v4"}
    /\ header_row = <<>>
    /\ columns = <<>>
    /\ passes = 0
    /\ dataset_type = Nothing
    /\ IdleUpload /\ IdleMatch /\ IdleFunnel /\ IdleCalls
    /\ IdleRace
    /\ InitSheet /\ InitRates

\* _build_show_lookup, up to the loop: an empty lookup, returned at once
\* for an empty sales table
StartLookup ==
    /\ built_lookup = Nothing
    /\ built_lookup' = <<(<<>>)>>
    /\ temp_idx' = IF temp = <<>> THEN 0 ELSE 1
    /\ UNCHANGED <<temp, sheetVars, rateVars, adsVars, funnelVars,
                   callVars,
                   raceVars>>

BuildingLookup ==
    /\ built_lookup # Nothing
    /\ temp_idx \in 1..Len(temp)

\* The loop body for a row with a city
LookupRow ==
    /\ BuildingLookup
    /\ NormalizedCity(temp[temp_idx]) # ""
    /\ built_lookup' =
           <<SetShow(built_lookup[1], NormalizedCity(temp[temp_idx]),
                     SequenceOf(temp[temp_idx]), temp[temp_idx].show_id)>>
    /\ temp_idx' = temp_idx + 1
    /\ UNCHANGED <<temp, sheetVars, rateVars, adsVars, funnelVars,
                   callVars,
                   raceVars>>

\* The loop body for a row without a city: continue
LookupSkipRow ==
    /\ BuildingLookup
    /\ NormalizedCity(temp[temp_idx]) = ""
    /\ temp_idx' = temp_idx + 1
    /\ UNCHANGED <<temp, built_lookup, sheetVars, rateVars, adsVars,
                   funnelVars, callVars,
                   raceVars>>

\* The lookup has been returned
LookupReturned ==
    /\ built_lookup # Nothing
    /\ temp_idx \notin 1..Len(temp)

NextLookup ==
    \/ StartLookup
    \/ LookupRow
    \/ LookupSkipRow

SpecLookup == InitLookup /\ [][NextLookup]_vars

---------------------------------------------------------------------------
\* Calls to the exchange-rate cache of one connector, one at a time, while
\* the clock advances

MaxHours == 8

MaxCalls == 3

\* The amounts (None is NaN) and the currency codes given to _convert_to_usd
Amounts == {NaN, Num(100), Rat(5, 2)}

ConvertedCodes == {"USD", "BRL", "EUR"}

InitCalls ==
    /\ exchange_rates = Nothing
    /\ exchange_rates_last_updated = Nothing
    /\ utcnow = 0
    /\ rate_calls = 0
    /\ refresh_outcome = None
    /\ converted = Nothing
    /\ InitSheet /\ IdleAds /\ IdleFunnel /\ IdleLookup
    /\ IdleRace

\* An hour passes
Tick ==
    /\ utcnow < MaxHours
    /\ utcnow' = utcnow + 1
    /\ UNCHANGED <<exchange_rates, exchange_rates_last_updated, sheetVars,
                   adsVars, analysisVars>>

Fresh == CacheIsFresh(exchange_rates, exchange_rates_last_updated, utcnow)

\* _ensure_exchange_rates, lines 419-424: the cache is fresh, return
EnsureCached ==
    /\ rate_calls < MaxCalls
    /\ Fresh
    /\ rate_calls' = rate_calls + 1
    /\ refresh_outcome' = None
    /\ UNCHANGED <<rateVars, converted, sheetVars, adsVars, funnelVars,
                   lookupVars,
                   raceVars>>

\* _ensure_exchange_rates, lines 426-434: the request gives a payload with
\* result "success" and a "rates" key, whose value is stored
EnsureRefreshed ==
    /\ rate_calls < MaxCalls
    /\ ~Fresh
    /\ \E fetched \in FetchOutcomes \ {Nothing} :
          LET cache == EnsureExchangeRates(exchange_rates,
                          exchange_rates_last_updated, utcnow, fetched)
          IN  /\ exchange_rates' = cache[1]
              /\ exchange_rates_last_updated' = cache[2]
    /\ rate_calls' = rate_calls + 1
    /\ refresh_outcome' = "success"
    /\ UNCHANGED <<utcnow, converted, sheetVars, adsVars, funnelVars,
                   lookupVars,
                   raceVars>>

\* _ensure_exchange_rates, lines 435-443: the request fails and there is no
\* table, the default table is stored
EnsureFallback ==
    /\ rate_calls < MaxCalls
    /\ ~Fresh
    /\ exchange_rates = Nothing
    /\ LET cache == EnsureExchangeRates(exchange_rates,
                       exchange_rates_last_updated, utcnow, Nothing)
       IN  /\ exchange_rates' = cache[1]
           /\ exchange_rates_last_updated' = cache[2]
    /\ rate_calls' = rate_calls + 1
    /\ refresh_outcome' = "failure"
    /\ UNCHANGED <<utcnow, converted, sheetVars, adsVars, funnelVars,
                   lookupVars,
                   raceVars>>

\* _ensure_exchange_rates, lines 435-440: the request fails and there is a
\* table, which stays with its timestamp
EnsureKeepsStale ==
    /\ rate_calls < MaxCalls
    /\ ~Fresh
    /\ exchange_rates # Nothing
    /\ LET cache == EnsureExchangeRates(exchange_rates,
                       exchange_rates_last_updated, utcnow, Nothing)
       IN  /\ exchange_rates' = cache[1]
           /\ exchange_rates_last_updated' = cache[2]
    /\ rate_calls' = rate_calls + 1
    /\ refresh_outcome' = "failure"
    /\ UNCHANGED <<utcnow, converted, sheetVars, adsVars, funnelVars,
                   lookupVars, raceVars>>

\* _convert_to_usd, lines 489-494: no amount, or an amount in dollars, is
\* returned as it is, the cache is not consulted
ConvertWithoutRates ==
    /\ \E amount \in Amounts, currency_code \in ConvertedCodes :
          /\ amount = NaN \/ currency_code = "USD"
          /\ converted' =
                <<[amount |-> amount, currency_code |-> currency_code,
                   result |-> ConvertToUsd(amount, currency_code,
                                           exchange_rates)]>>
    /\ UNCHANGED <<rateVars, rate_calls, refresh_outcome, sheetVars, adsVars,
                   funnelVars, lookupVars,
                   raceVars>>

\* _convert_to_usd, lines 496-506: the rates are ensured and the amount is
\* divided by the rate of its currency
ConvertWithRates ==
    /\ rate_calls < MaxCalls
    /\ \E amount \in Amounts \ {NaN},
          currency_code \in ConvertedCodes \ {"USD"},
          fetched \in FetchOutcomes :
          LET cache == EnsureExchangeRates(exchange_rates,
                          exchange_rates_last_updated, utcnow, fetched)
          IN  /\ exchange_rates' = cache[1]
              /\ exchange_rates_last_updated' = cache[2]
              /\ converted' =
                    <<[amount |-> amount, currency_code |-> currency_code,
                       result |-> ConvertToUsd(amount, currency_code,
                                               cache[1])]>>
              /\ refresh_outcome' =
                    IF Fresh THEN None
                    ELSE IF fetched = Nothing THEN "failure"
                    ELSE "success"
    /\ rate_calls' = rate_calls + 1
    /\ UNCHANGED <<utcnow, sheetVars, adsVars, funnelVars, lookupVars,
                   raceVars>>

NextCalls ==
    \/ Tick
    \/ EnsureCached
    \/ EnsureRefreshed
    \/ EnsureFallback
    \/ EnsureKeepsStale
    \/ ConvertWithoutRates
    \/ ConvertWithRates

SpecCalls == InitCalls /\ [][NextCalls]_vars

---------------------------------------------------------------------------
\* Two callers in _ensure_exchange_rates on the same connector, a statement
\* at a time. The function takes no lock.

Callers == {"first", "second"}

\* The statements between which a caller has sent its request and not yet
\* finished storing what came of it
RefreshingAt ==
    {"request", "store_rates", "store_stamp", "check_none", "default_rates",
     "default_stamp"}

\* The empty cache of a new connector, or the default table stored a TTL ago
InitRace ==
    /\ \/ /\ exchange_rates = Nothing
          /\ exchange_rates_last_updated = Nothing
          /\ utcnow = 0
       \/ /\ exchange_rates = <<DefaultExchangeRates>>
          /\ exchange_rates_last_updated = <<0>>
          /\ utcnow = TtlHours
    /\ caller_pc = [c \in Callers |-> "idle"]
    /\ caller_payload = [c \in Callers |-> Nothing]
    /\ table_writer = "init"
    /\ stamp_writer = "init"
    /\ InitSheet /\ IdleAds /\ IdleFunnel /\ IdleLookup /\ IdleCalls

At(c, pc) == caller_pc[c] = pc

Goto(c, pc) == caller_pc' = [caller_pc EXCEPT ![c] = pc]

\* A caller enters _ensure_exchange_rates
CallEnsure ==
    \E c \in Callers :
        /\ At(c, "idle")
        /\ Goto(c, "guard")
        /\ UNCHANGED <<caller_payload, table_writer, stamp_writer, rateVars,
                       sheetVars, adsVars, funnelVars, lookupVars, callVars>>

\* Lines 419-424: the guard reads the table and its timestamp
Guard ==
    \E c \in Callers :
        /\ At(c, "guard")
        /\ Goto(c, IF Fresh THEN "done" ELSE "request")
        /\ UNCHANGED <<caller_payload, table_writer, stamp_writer, rateVars,
                       sheetVars, adsVars, funnelVars, lookupVars, callVars>>

\* Lines 427-430: the request returns a payload that is accepted
RequestSucceeds ==
    \E c \in Callers, fetched \in FetchOutcomes \ {Nothing} :
        /\ At(c, "request")
        /\ caller_payload' = [caller_payload EXCEPT ![c] = fetched]
        /\ Goto(c, "store_rates")
        /\ UNCHANGED <<table_writer, stamp_writer, rateVars, sheetVars,
                       adsVars, funnelVars, lookupVars, callVars>>

\* Lines 435-438: the request fails, or its payload is not accepted
RequestFails ==
    \E c \in Callers :
        /\ At(c, "request")
        /\ Goto(c, "check_none")
        /\ UNCHANGED <<caller_payload, table_writer, stamp_writer, rateVars,
                       sheetVars, adsVars, funnelVars, lookupVars, callVars>>

\* Line 431: self.exchange_rates = payload["rates"]
StoreRates ==
    \E c \in Callers :
        /\ At(c, "store_rates")
        /\ exchange_rates' = caller_payload[c][1]
        /\ table_writer' = c
        /\ Goto(c, "store_stamp")
        /\ UNCHANGED <<caller_payload, stamp_writer,
                       exchange_rates_last_updated, utcnow, sheetVars,
                       adsVars, funnelVars, lookupVars, callVars>>

\* Line 432: self.exchange_rates_last_updated = datetime.utcnow()
StoreStamp ==
    \E c \in Callers :
        /\ At(c, "store_stamp")
        /\ exchange_rates_last_updated' = <<utcnow>>
        /\ stamp_writer' = c
        /\ Goto(c, "done")
        /\ UNCHANGED <<caller_payload, table_writer, exchange_rates, utcnow,
                       sheetVars, adsVars, funnelVars, lookupVars, callVars>>

\* Line 440: if self.exchange_rates is None
CheckNone ==
    \E c \in Callers :
        /\ At(c, "check_none")
        /\ Goto(c, IF exchange_rates = Nothing THEN "default_rates"
                   ELSE "done")
        /\ UNCHANGED <<caller_payload, table_writer, stamp_writer, rateVars,
                       sheetVars, adsVars, funnelVars, lookupVars, callVars>>

\* Line 441: self.exchange_rates = self.default_exchange_rates.copy()
StoreDefaultRates ==
    \E c \in Callers :
        /\ At(c, "default_rates")
        /\ exchange_rates' = <<DefaultExchangeRates>>
        /\ table_writer' = c
        /\ Goto(c, "default_stamp")
        /\ UNCHANGED <<caller_payload, stamp_writer,
                       exchange_rates_last_updated, utcnow, sheetVars,
                       adsVars, funnelVars, lookupVars, callVars>>

\* Line 442: self.exchange_rates_last_updated = datetime.utcnow()
StoreDefaultStamp ==
    \E c \in Callers :
        /\ At(c, "default_stamp")
        /\ exchange_rates_last_updated' = <<utcnow>>
        /\ stamp_writer' = c
        /\ Goto(c, "done")
        /\ UNCHANGED <<caller_payload, table_writer, exchange_rates, utcnow,
                       sheetVars, adsVars, funnelVars, lookupVars, callVars>>

NextRace ==
    \/ CallEnsure
    \/ Guard
    \/ RequestSucceeds
    \/ RequestFails
    \/ StoreRates
    \/ StoreStamp
    \/ CheckNone
    \/ StoreDefaultRates
    \/ StoreDefaultStamp

SpecRace == InitRace /\ [][NextRace]_vars

---------------------------------------------------------------------------
\* One show row under the scan, with one numeric cell of every spelling

\* The numeric columns of a snapshot (_convert_data_types, numeric_cols)
NumericCols == NumericFields \cup {"sales_to_date"}

\* Spellings of a numeric cell: empty and blank cells, zeros, text without a
\* number, numbers with separators, signs, symbols and units, and text that
\* only looks like a number
NumericCells ==
    {"", " ", "0", " 0 ", "0.0", "0,00", "$0", "0%", "R$ 0", "-", "n/a",
     "abc", "TBD", "12", "1,200", "33,3%", "R$ 10", "-3", "1.2.3", "1-2"}

\* The example row with `cell` in the column of `field_name`
CellRow(field_name, cell) ==
    [i \in 1..Len(ExampleRow18) |->
        IF i = ColumnIndex(field_name) THEN cell ELSE ExampleRow18[i]]

\* load_data has fetched a one-row sheet and stored the default table after
\* a failed request; the scan is about to start
InitCells ==
    /\ raw_data \in {<<CellRow(field_name, cell)>> :
                        field_name \in NumericCols, cell \in NumericCells}
    /\ row_idx = 0
    /\ current_month = None
    /\ line_type = None
    /\ processed_shows = <<>>
    /\ load_pc = "scan"
    /\ sales_df = Nothing
    /\ exchange_rates = <<DefaultExchangeRates>>
    /\ exchange_rates_last_updated = <<0>>
    /\ utcnow = 0
    /\ IdleAds /\ IdleAnalysis

NextCells ==
    \/ ScanShowData
    \/ ScanExhausted
    \/ LoadDataTransform

SpecCells == InitCells /\ [][NextCells]_vars

---------------------------------------------------------------------------
\* Properties of the sheet parser

\* The rows the scan has passed: raw_data[1..row_idx]
Passed == 1..row_idx

\* The label _identify_line_type gives a row
ClassOf(row) == IdentifyLineType(IF row = <<>> THEN "" ELSE FirstCell(row), row)

\* The snapshots taken from the row at 1-based position k
SnapshotsOf(shows, k) ==
    {i \in 1..Len(shows) : shows[i].source_row = k - 1}

\* The first row whose first cell is exactly endRow; Len(raw_data) + 1 when
\* there is none
FirstEndRow ==
    LET ends == {k \in 1..Len(raw_data) :
                    raw_data[k] # <<>> /\ FirstCell(raw_data[k]) = "endRow"}
    IN  IF ends = {} THEN Len(raw_data) + 1
        ELSE CHOOSE k \in ends : \A j \in ends : k <= j

\* C1: row classification is total and single-valued: every row of the
\* sheet, and every row cut from the row under the scan at any number of
\* cells, gets exactly one of the seven labels, and the label the scan
\* recorded last is one of them; no row makes the classification fail.
C1_ClassificationTotal ==
    /\ \A k \in 1..Len(raw_data) : ClassOf(raw_data[k]) \in LineTypes
    /\ Scanning =>
          \A n \in 0..Len(Row) : ClassOf(SubSeq(Row, 1, n)) \in LineTypes
    /\ row_idx > 0 /\ raw_data[row_idx] # <<>> => line_type \in LineTypes

\* C1, witness: the scan has classified a row by the fallback on its shape
\* (a wide row whose first cell matches no pattern) and a row that falls
\* through every rule
C1_Witness ==
    /\ row_idx = 2
    /\ raw_data[1] = UnlabelledRow
    /\ ~MatchesShowId(FirstCell(raw_data[1]))
    /\ ClassOf(raw_data[1]) = "show_data"
    /\ raw_data[2] = <<"Total">>
    /\ line_type = "unknown"

\* The rows the scan passed as show data
ShowDataRows ==
    {k \in Passed : raw_data[k] # <<>> /\ ClassOf(raw_data[k]) = "show_data"}

\* C2, as amended: for every row classified as show_data, if the row has at
\* least 18 cells, its first cell, trimmed, matches the show_id pattern and
\* its show_name cell holds a character that is not white space, the row
\* yields one snapshot, with the trimmed id and a non-null show_name; a row
\* of fewer than 18 cells yields none; no snapshot with a null show_id or
\* show_name is emitted.
C2_SnapshotOfCompleteRow ==
    /\ \A k \in ShowDataRows :
          LET row   == raw_data[k]
              taken == SnapshotsOf(processed_shows, k)
          IN  /\ /\ Len(row) >= 18
                 /\ MatchesShowId(Strip(row[1]))
                 /\ Strip(row[4]) # ""
                 => /\ Cardinality(taken) = 1
                    /\ \A i \in taken :
                          /\ processed_shows[i].show_id = Strip(row[1])
                          /\ processed_shows[i].show_name = Strip(row[4])
              /\ Len(row) < 18 => taken = {}
    /\ \A i \in 1..Len(processed_shows) :
          /\ processed_shows[i].show_id # None
          /\ processed_shows[i].show_name # None

\* C2, as stated: a show_data row of at least 18 cells whose first cell
\* matches the show_id pattern and whose show_name cell is not empty yields
\* a snapshot.
C2_AsStated ==
    \A k \in ShowDataRows :
        LET row == raw_data[k]
        IN  Len(row) >= 18 /\ MatchesShowId(row[1]) /\ row[4] # ""
                => SnapshotsOf(processed_shows, k) # {}

\* C2, witness: the scan has passed a complete show row that gave a
\* snapshot, a show row of fewer than 18 cells and a show row with a blank
\* show_name
C2_Witness ==
    /\ \E k \in ShowDataRows :
          Len(raw_data[k]) >= 18 /\ SnapshotsOf(processed_shows, k) # {}
    /\ \E k \in ShowDataRows : Len(raw_data[k]) < 18
    /\ \E k \in ShowDataRows : raw_data[k] = BlankNameRow

\* The rows of the loaded frame
Frame == sales_df[1]

\* C3, as amended: the example row has 16 cells, is classified show_data
\* and yields no snapshot; made 18 cells wide with two empty cells it
\* yields one snapshot with show_id = WDC_0927, capacity = 5000,
\* sales_to_date = 500, total_sold = 4500, remaining = 4 and
\* occupancy_rate = 90.0 (the map reads total_sold from the 14th cell and
\* remaining from the 15th).
C3_ExampleRowByColumnMap ==
    /\ ClassOf(ExampleRow) = "show_data"
    /\ \A k \in Passed :
          raw_data[k] = ExampleRow => SnapshotsOf(processed_shows, k) = {}
    /\ load_pc = "loaded" =>
          \A k \in Passed :
              raw_data[k] = ExampleRow18 =>
                  /\ Cardinality(SnapshotsOf(Frame, k)) = 1
                  /\ \A i \in SnapshotsOf(Frame, k) :
                        /\ Frame[i].show_id = "WDC_0927"
                        /\ Frame[i].capacity = Num(5000)
                        /\ Frame[i].sales_to_date = Num(500)
                        /\ Frame[i].total_sold = Num(4500)
                        /\ Frame[i].remaining = Num(4)
                        /\ Frame[i].occupancy_rate = Num(90)

\* C3, as stated: the example row yields a snapshot with show_id = WDC_0927,
\* capacity = 5000, total_sold = 500, remaining = 4500 and
\* occupancy_rate = 10.0.
C3_AsStated ==
    load_pc = "loaded" =>
        \A k \in Passed :
            raw_data[k] = ExampleRow =>
                \E i \in SnapshotsOf(Frame, k) :
                    /\ Frame[i].show_id = "WDC_0927"
                    /\ Frame[i].capacity = Num(5000)
                    /\ Frame[i].total_sold = Num(500)
                    /\ Frame[i].remaining = Num(4500)
                    /\ Frame[i].occupancy_rate = Num(10)

\* C3, witness: a sheet with the example row and with its 18-cell form has
\* been loaded
C3_Witness ==
    /\ load_pc = "loaded"
    /\ \E k \in Passed : raw_data[k] = ExampleRow
    /\ \E k \in Passed : raw_data[k] = ExampleRow18

\* The month context the rows before position k leave
MonthBefore(k) ==
    LET heads == {j \in 1..(k - 1) :
                    raw_data[j] # <<>> /\ FirstCell(raw_data[j]) \in MonthNames}
    IN  IF heads = {} THEN None
        ELSE FirstCell(raw_data[CHOOSE j \in heads : \A h \in heads : h <= j])

\* C4: once the scan meets the first row whose first cell is endRow it
\* stops: the scan never passes that row, every snapshot comes from a row
\* before it, in increasing source-row order, the month context is the one
\* the rows before it left, and after the endRow step neither the
\* snapshots nor the month context change.
C4_EndRowTerminates ==
    /\ [](row_idx < FirstEndRow)
    /\ [](\A i \in 1..Len(processed_shows) :
            /\ processed_shows[i].source_row + 1 < FirstEndRow
            /\ i > 1 => processed_shows[i - 1].source_row
                            < processed_shows[i].source_row)
    /\ [](current_month = MonthBefore(row_idx + 1))
    /\ [][line_type = "end_row" =>
            /\ processed_shows' = processed_shows
            /\ current_month' = current_month
            /\ row_idx' = row_idx]_vars

\* C4, witness: a load has ended at an endRow that a well-formed show row
\* and a month header follow
C4_Witness ==
    /\ load_pc = "loaded"
    /\ line_type = "end_row"
    /\ FirstEndRow = 1
    /\ Len(raw_data) = 3
    /\ raw_data[2] = ShowRow
    /\ raw_data[3] = <<"October">>

---------------------------------------------------------------------------
\* Properties of the consolidation

\* Row j of the frame comes before row i of the same show when the show's
\* snapshots are sorted by report_date, null dates last, ties by row order
ComesBefore(j, i) ==
    /\ Frame[j].show_id = Frame[i].show_id
    /\ j # i
    /\ IF Frame[j].report_date = NaT
       THEN Frame[i].report_date = NaT /\ j < i
       ELSE \/ Frame[i].report_date = NaT
            \/ DateKey(Frame[j].report_date) < DateKey(Frame[i].report_date)
            \/ Frame[j].report_date = Frame[i].report_date /\ j < i

\* The snapshots of row i's show
SameShow(i) == {j \in 1..Len(Frame) : Frame[j].show_id = Frame[i].show_id}

\* C5, as stated: in the loaded frame every show has exactly one snapshot
\* flagged is_latest_snapshot, and it is the last of the show's snapshots in
\* the order by report_date with null report_dates last and ties broken by
\* row order.
C5_LatestIsLastNullsLast ==
    load_pc = "loaded" =>
        \A i \in 1..Len(Frame) :
            /\ Cardinality({j \in SameShow(i) : Frame[j].is_latest_snapshot}) = 1
            /\ Frame[i].is_latest_snapshot
                  <=> \A j \in SameShow(i) \ {i} : ComesBefore(j, i)

\* C5, the failing input reached: a show with an undated report and a dated
\* report behind it has been loaded
C5_Witness ==
    /\ load_pc = "loaded"
    /\ raw_data = <<UndatedReport, LaterReport>>

\* The 1-based place of row i among its show's snapshots in sorted order
PlaceInShow(i) == 1 + Cardinality({j \in SameShow(i) : ComesBefore(j, i)})

\* The sum of today_sold, nulls counted as 0, over a set of rows
RECURSIVE TodaySoldOver(_)
TodaySoldOver(rows) ==
    IF rows = {} THEN Num(0)
    ELSE LET j == CHOOSE j \in rows : TRUE
         IN  RatAdd(IF Frame[j].today_sold = NaN THEN Num(0)
                    ELSE Frame[j].today_sold,
                    TodaySoldOver(rows \ {j}))

\* C6: at the n-th snapshot of a show in sorted order, avg_sales_last_7_days
\* is the sum of today_sold (nulls counted as 0) over the show's last
\* min(n, 7) snapshots up to that one, divided by min(n, 7); for a show of
\* k < 7 snapshots the value at its last snapshot is the sum of all k
\* divided by k.
C6_AverageOverObservations ==
    load_pc = "loaded" =>
        \A i \in 1..Len(Frame) :
            LET n == PlaceInShow(i)
                window == {j \in SameShow(i) :
                              /\ PlaceInShow(j) <= n
                              /\ PlaceInShow(j) > n - 7}
            IN  /\ Cardinality(window) = Min(n, 7)
                /\ Frame[i].avg_sales_last_7_days
                      = RatDiv(TodaySoldOver(window), Num(Min(n, 7)))

\* C6, witness: a show of eight snapshots has been loaded, so that the frame
\* holds places below and above seven and a null today_sold in the window
C6_Witness ==
    /\ load_pc = "loaded"
    /\ \E i \in 1..Len(Frame) : PlaceInShow(i) = 8
    /\ \E i \in 1..Len(Frame) :
          /\ PlaceInShow(i) = 3
          /\ Frame[i].avg_sales_last_7_days = Num(1)
    /\ \E i \in 1..Len(Frame) : Frame[i].today_sold = NaN

---------------------------------------------------------------------------
\* Properties of the ad-report pipeline

\* The alias index of the module that resolves the headers
IndexOf(module) == IF module = "v2" THEN AliasIndexV2 ELSE AliasIndex

\* C7: header resolution is idempotent. Once detect_and_normalize_columns
\* has been applied to a header list, applying it to its own output yields
\* the same header list: resolve(resolve(h)) = resolve(h), in app.py and in
\* v2/app.py.
C7_ResolveIdempotent ==
    (app \in {"app", "v2"} /\ passes >= 1)
        => /\ columns = DetectAndNormalizeColumns(header_row, IndexOf(app))
           /\ DetectAndNormalizeColumns(columns, IndexOf(app)) = columns

\* A header list that resolution changes has been resolved twice
C7_Witness ==
    /\ app \in {"app", "v2"}
    /\ passes = 2
    /\ header_row = <<"Day", "Time", "Campaign name">>
    /\ columns = <<"date", "time_of_day", "campaign_name">>

\* The markers of the priority rule, among normalized header names
TimeMarkers == {"timeofdayviewerstimezone", "timeofday"}

BreakdownMarkers == {"placement", "platform", "deviceplatform"}

DateMarkers == {"date", "reportingstarts", "reportingends"}

CampaignMarkers == {"campaignname", "campaign"}

\* The dataset type the priority rule gives a set of normalized names
PriorityType(normalized) ==
    IF TimeMarkers \cap normalized # {} THEN "days_time"
    ELSE IF BreakdownMarkers \cap normalized # {} THEN "days_placement_device"
    ELSE IF DateMarkers \cap normalized # {} /\ CampaignMarkers \cap normalized # {}
    THEN "days"
    ELSE None

\* C8: dataset-type detection follows the strict priority over the
\* normalized headers: a time-of-day marker gives days_time; else a
\* placement, platform or device marker gives days_placement_device; else a
\* date marker with a campaign marker gives days; otherwise null.
C8_DetectionFollowsPriority ==
    dataset_type # Nothing
        => dataset_type[1] = PriorityType(NormalizedColumns(columns))

\* app.py has typed resolved headers with a device marker, a date marker and
\* a campaign marker
C8_Witness ==
    /\ app = "app"
    /\ dataset_type # Nothing
    /\ header_row = <<"Day", "Campaign name", "Device platform">>
    /\ columns = <<"date", "campaign_name", "device_platform">>

\* The export names of the dataset types
ExportName(type) ==
    IF type = "days" THEN "Days"
    ELSE IF type = "days_placement_device" THEN "Days + Placement + Device"
    ELSE "Days + Time"

\* The characters of a dataset-type name
TypeNameChars == Lower \cup {"_"}

\* `message` names dataset type `type`: it holds the type's name as a whole
\* word, or the quoted name of its export
NamesType(message, type) ==
    \/ Contains(message, "'" \o ExportName(type) \o "'")
    \/ \E i \in 1..Len(message) :
          /\ Sub(message, i, i + Len(type) - 1) = type
          /\ Ch(message, i - 1) \notin TypeNameChars
          /\ Ch(message, i + Len(type)) \notin TypeNameChars

\* C9: when the detected types of the uploaded files do not cover days,
\* days_placement_device and days_time, process_ads_files reports a
\* validation error that names exactly the missing dataset types.
C9_ErrorNamesExactlyMissing ==
    (outcome # Nothing /\ MissingTypes # {})
        => /\ outcome[1].message # ""
           /\ \A type \in RequiredTypes :
                 NamesType(outcome[1].message, type) <=> type \in MissingTypes

\* app.py has answered an upload of a days_time-shaped and a days-shaped file
C9_Witness ==
    /\ app = "app"
    /\ outcome # Nothing
    /\ Len(uploaded_files) = 2
    /\ uploaded_files[1].name = "time.csv"
    /\ uploaded_files[2].name = "days.csv"
    /\ MissingTypes = {"days_placement_device"}
    /\ NamesType(outcome[1].message, "days_placement_device")

\* The show ids stored in a lookup
StoredShowIds(lookup) ==
    UNION {{lookup[i].sequences[j].show_id : j \in 1..Len(lookup[i].sequences)} :
              i \in 1..Len(lookup)}

\* The campaign name of the scenario, on a row with no other text
LegacyCampaign ==
    /\ ad_row.campaign_name = "US-WDC-Sales-0927-Interest-12"
    /\ ad_row.ad_set_name = ""
    /\ ad_row.ad_name = ""

\* The lookup has shows for city "wdc"
HasWdc == \E i \in 1..Len(show_lookup) : show_lookup[i].city_key = "wdc"

\* C10: for the campaign name "US-WDC-Sales-0927-Interest-12" the direct-id
\* extractor finds no direct id, the match comes from the legacy-pattern /
\* city lookup path, and the show id returned is one stored in the lookup.
C10_LegacyCampaignMatchesStoredShow ==
    (LegacyCampaign /\ HasWdc /\ match_pc # "start")
        => /\ match_pc \in {"legacy", "fallback"}
           /\ matched_show_id[1] \in StoredShowIds(show_lookup)

\* optimized-ads-analyzer.py has matched the campaign of the scenario
C10_Witness ==
    /\ app = "v4"
    /\ LegacyCampaign /\ HasWdc
    /\ match_pc # "start"

\* C11: for every matched ad record, match_confidence is "high" exactly when
\* the id came from the direct-id extractor of Step 1, "low" exactly when a
\* legacy-pattern or city-lookup fallback step produced an id, and "none"
\* exactly when no id was produced.
C11_ConfidenceFollowsStep ==
    match_confidence # Nothing
        => LET produced == matched_show_id[1] # None
           IN  /\ match_confidence[1] = "high" <=> match_pc = "direct"
               /\ match_confidence[1] = "low"
                      <=> (match_pc \in {"legacy", "fallback"} /\ produced)
               /\ match_confidence[1] = "none" <=> ~produced

\* A row without a direct id whose city is found by the fallback match has
\* its confidence computed.
C11_Witness ==
    /\ app = "v4"
    /\ ad_row.campaign_name = "wdc second night"
    /\ ad_row.ad_set_name = ""
    /\ ad_row.ad_name = ""
    /\ match_pc = "fallback"
    /\ matched_show_id = <<"WDC_0927_S2">>
    /\ match_confidence # Nothing

\* The ad rows of the frame that carry a show id
RowsOf(id) == {i \in 1..Len(ads_df) : ads_df[i].matched_show_id = id}

\* The sum of a column over a set of rows, a NaN counting for nothing
RECURSIVE ColumnSum(_, _)
ColumnSum(rows, field) ==
    IF rows = {} THEN Num(0)
    ELSE LET i == CHOOSE i \in rows : TRUE
             rest == ColumnSum(rows \ {i}, field)
         IN  IF ads_df[i][field] = NaN THEN rest
             ELSE RatAdd(rest, ads_df[i][field])

FunnelFields ==
    {"spend", "impressions", "clicks", "lp_views", "add_to_cart", "purchases"}

\* C12: calculate_funnel_summary gives exactly one FunnelSummary per distinct
\* non-null matched_show_id, each of its six fields is the sum of the field
\* over exactly the rows carrying that id, and clicks_per_ticket is the total
\* of clicks over the total of purchases (spends 100 and 150 with purchases
\* 2 and 3 give spend 250, purchases 5 and clicks_per_ticket = clicks / 5).
C12_OneSummaryPerShow ==
    funnel_summary # Nothing
        => LET result == funnel_summary[1]
               ids == {ads_df[i].matched_show_id : i \in 1..Len(ads_df)}
                          \ {None}
           IN  /\ DOMAIN result = ids
               /\ \A id \in ids :
                     /\ result[id].show_id = id
                     /\ \A field \in FunnelFields :
                           result[id][field] = ColumnSum(RowsOf(id), field)
                     /\ result[id].purchases.n # 0
                           => RatMul(ClicksPerTicket(result[id]),
                                     result[id].purchases)
                                  = result[id].clicks
               /\ ads_df = <<FirstWdcAd, SecondWdcAd>>
                     => /\ result["WDC_0927"].spend = Num(250)
                        /\ result["WDC_0927"].purchases = Num(5)
                        /\ ClicksPerTicket(result["WDC_0927"]) = Num(20)

\* The two rows of the scenario, with an unmatched row between them, have
\* been summarised.
C12_Witness ==
    /\ ads_df = <<FirstWdcAd, UnmatchedAd, SecondWdcAd>>
    /\ funnel_summary # Nothing
    /\ DOMAIN funnel_summary[1] = {"WDC_0927"}
    /\ funnel_summary[1]["WDC_0927"].spend = Num(250)
    /\ funnel_summary[1]["WDC_0927"].purchases = Num(5)

\* The first row of the sales table with a city key and a sequence
FirstRowOf(city_key, seq) ==
    CHOOSE i \in 1..Len(temp) :
        /\ NormalizedCity(temp[i]) = city_key
        /\ SequenceOf(temp[i]) = seq
        /\ \A j \in 1..(i - 1) :
              ~(NormalizedCity(temp[j]) = city_key
                  /\ SequenceOf(temp[j]) = seq)

\* C13: when rows of different show ids share a normalized city and a
\* sequence number, the lookup entry of that city and sequence holds the
\* show id of the first such row of the sales table.
C13_FirstShowRetained ==
    LookupReturned
        => \A c \in 1..Len(built_lookup[1]) :
             LET city == built_lookup[1][c]
             IN  \A k \in 1..Len(city.sequences) :
                    city.sequences[k].show_id
                        = temp[FirstRowOf(city.city_key,
                                          city.sequences[k].seq)].show_id

\* Two shows of Washington DC without a sequence suffix have been indexed.
C13_Witness ==
    /\ LookupReturned
    /\ Len(temp) = 2
    /\ temp[1].show_id = "WDC_0927"
    /\ temp[2].show_id = "WDC_1004"
    /\ Len(built_lookup[1]) = 1
    /\ built_lookup[1][1].city_key = "washingtondc"

\* C14: every snapshot emitted by the sheet parser has a show_id matching
\* ^[A-Z]{2,3}_\d{4}(_S\d+)?$, whatever the sheet, the rows classified as
\* show_data only by the fallback rule (more than 10 cells and a date-like
\* second cell) included.
C14_EmittedShowIdMatchesPattern ==
    \A i \in 1..Len(processed_shows) :
        MatchesShowId(processed_shows[i].show_id)

\* The scan has passed a wide row whose first cell is no show id and whose
\* second cell is a date, and has emitted a snapshot for it.
C14_Witness ==
    \E k \in ShowDataRows :
        /\ raw_data[k] = UnlabelledRow
        /\ ~MatchesShowId(FirstCell(raw_data[k]))
        /\ FallbackLineType(raw_data[k]) = "show_data"
        /\ SnapshotsOf(processed_shows, k) # {}

\* The category the half-open buckets give an occupancy of [0, 100]
BucketOf(occupancy_rate) ==
    IF RatLt(occupancy_rate, Num(50)) THEN "Underperforming"
    ELSE IF RatLt(occupancy_rate, Num(75)) THEN "Developing"
    ELSE IF RatLt(occupancy_rate, Num(90)) THEN "Strong"
    ELSE "Sold Out"

\* C15: performance_category follows occupancy_rate by half-open buckets:
\* [0, 50) is Underperforming, [50, 75) Developing, [75, 90) Strong and
\* [90, 100] Sold Out, the boundary values 50, 75 and 90 falling in the upper
\* bucket.
C15_CategoryByHalfOpenBuckets ==
    sales_df # Nothing
        => \A i \in 1..Len(sales_df[1]) :
              LET rate == sales_df[1][i].occupancy_rate
              IN  (rate # NaN /\ RatLe(Num(0), rate) /\ RatLe(rate, Num(100)))
                      => sales_df[1][i].performance_category = BucketOf(rate)

\* A show sold to exactly half of its capacity has been consolidated.
C15_Witness ==
    /\ sales_df # Nothing
    /\ Len(sales_df[1]) = 1
    /\ raw_data[1] = OccupancyReport("500")
    /\ sales_df[1][1].occupancy_rate = Num(50)
    /\ sales_df[1][1].performance_category # None

\* C16: converting an amount whose currency is the dollar returns the amount
\* unchanged, whatever the amount and whatever the cache holds (nothing, a
\* fresh table, a stale one, the default one).
C16_DollarsUnchanged ==
    (converted # Nothing /\ converted[1].currency_code = "USD")
        => converted[1].result = converted[1].amount

\* An amount in dollars has been converted while the cache held a remote
\* table older than the TTL.
C16_Witness ==
    /\ converted # Nothing
    /\ converted[1].currency_code = "USD"
    /\ converted[1].amount = Num(100)
    /\ converted[1].result = Num(100)
    /\ exchange_rates = <<RebasedRates>>
    /\ utcnow - exchange_rates_last_updated[1] >= 6

\* C17: the table is refreshed on a TTL of 6 hours: a call of
\* _ensure_exchange_rates sends no request while there is a cached table
\* whose timestamp is less than 6 hours old, and a call made 6 hours or more
\* after the last update, or without a table, does send one.
C17_RefreshOnTtl ==
    [][rate_calls' # rate_calls
          => (refresh_outcome' = None
                <=> /\ exchange_rates # Nothing
                    /\ exchange_rates_last_updated # Nothing
                    /\ utcnow - exchange_rates_last_updated[1] < 6)]_vars

\* The default table stored at hour 0 is 6 hours old and the second call has
\* sent a request.
C17_Witness ==
    /\ rate_calls = 2
    /\ refresh_outcome # None
    /\ exchange_rates = <<DefaultExchangeRates>>
    /\ exchange_rates_last_updated = <<0>>
    /\ utcnow = 6

\* C18: if the refresh fails, _ensure_exchange_rates does not raise and the
\* static fallback table is the one used for rate lookups, so that after any
\* call the connector holds a rate table that is not null.
C18_FailedRefreshUsesFallback ==
    [][rate_calls' # rate_calls
          => /\ exchange_rates' # Nothing
             /\ refresh_outcome' = "failure"
                   => exchange_rates' = <<DefaultExchangeRates>>]_vars

\* A refresh has failed while the cache held a remote table.
C18_Witness ==
    /\ rate_calls >= 2
    /\ refresh_outcome = "failure"
    /\ exchange_rates = <<RemoteRates>>

\* The callers whose refresh is in progress
Refreshing == {c \in Callers : caller_pc[c] \in RefreshingAt}

\* The table and the timestamp of the cache come from different refreshes
Torn == table_writer # stamp_writer

\* C19: the cache follows a single-writer refresh discipline: with two
\* callers in _ensure_exchange_rates on the same connector, at most one
\* refresh is in progress at a time, and no caller reads a torn cache, a
\* table paired with the timestamp of a different refresh.
C19_SingleWriterRefresh ==
    /\ Cardinality(Refreshing) <= 1
    /\ \A c \in Callers : caller_pc[c] = "guard" => ~Torn

\* Both callers have passed the guard over a stale cache and have their
\* requests in flight.
C19_Witness ==
    /\ caller_pc = [c \in Callers |-> "request"]
    /\ exchange_rates = <<DefaultExchangeRates>>
    /\ utcnow - exchange_rates_last_updated[1] >= 6

\* The digits of a cell
CellDigits(cell) == Keep(cell, Digit)

\* The cell holds digits and every one of them is 0
DenotesZero(cell) == CellDigits(cell) # "" /\ AllIn(CellDigits(cell), {"0"})

\* The cell is a plain numeral: digits, with at most one point among them
Numeral(cell) ==
    LET text == Strip(cell)
        p    == RFind(text, ".")
        ip   == IF p = 0 THEN text ELSE Sub(text, 1, p - 1)
        fp   == IF p = 0 THEN "" ELSE Sub(text, p + 1, Len(text))
    IN  /\ ip # "" /\ AllIn(ip, Digit)
        /\ AllIn(fp, Digit)
        /\ p = 0 \/ fp # ""

IsZero(value) == value # NaN /\ value.n = 0

\* What a numeric field owes to its source cell
NullNotZero(cell, value) ==
    /\ CellDigits(cell) = "" => value = NaN
    /\ Numeral(cell) => value # NaN
    /\ IsZero(value) => DenotesZero(cell)
    /\ Numeral(cell) /\ DenotesZero(cell) => IsZero(value)

C21_TransportFailureGivesNoData ==
    /\ load_pc = "failed" =>
          /\ sales_df = Nothing
          /\ raw_data = <<>>
          /\ processed_shows = <<>>
    /\ sales_df # Nothing => load_pc = "loaded"

\* The download has failed and load_data has returned.
C21_Witness == load_pc = "failed" /\ sales_df = Nothing

\* The rows of the enriched frame that were matched to a show
MatchedRows == {i \in 1..Len(ads_df) : ads_df[i].matched_show_id # None}

\* C22: ad rows whose matched_show_id is null are left out of every
\* FunnelSummary but stay in the enriched table: enrich_ads_dataframe
\* returns as many rows as it received, each with the columns it had, and
\* every matched row of a frame that also holds unmatched rows is summed
\* into the summary of its show, which sums nothing else.
C22_UnmatchedKeptNotSummed ==
    /\ enrich_pc \in {"enriched", "summarized"} =>
          /\ Len(ads_df) = Len(days_df)
          /\ \A i \in 1..Len(days_df) :
                \A column \in DOMAIN days_df[i] :
                    ads_df[i][column] = days_df[i][column]
    /\ enrich_pc = "summarized" =>
          LET result == funnel_summary[1]
          IN  /\ None \notin DOMAIN result
              /\ \A i \in MatchedRows :
                    ads_df[i].matched_show_id \in DOMAIN result
              /\ \A id \in DOMAIN result, field \in FunnelFields :
                    result[id][field] = ColumnSum(RowsOf(id), field)

\* A days report of three rows, one unmatched and two matched, has been
\* enriched and summarised.
C22_Witness ==
    /\ enrich_pc = "summarized"
    /\ Len(days_df) = 3
    /\ Cardinality(MatchedRows) = 2

\* What each strategy of _match_show_identifier_enhanced yields for the row
\* being matched, in the order they are tried: the direct id, the show the
\* legacy fields resolve to, and the city fallback (None for no id)
StrategyYields ==
    LET legacy == LegacyMatch(MergedTextV4(ad_row))
    IN  <<DirectShowIdFrom(TextCandidates(ad_row), 1),
          IF legacy = Nothing THEN None
          ELSE LookupByCityAndSequence(legacy[1].city, legacy[1].show_num,
                                       show_lookup),
          FallbackShowMatchV4(MergedTextV4(ad_row), show_lookup)>>

\* The first id of a sequence of yields, None when there is none
FirstYield(yields) ==
    IF \A k \in 1..Len(yields) : yields[k] = None THEN None
    ELSE yields[CHOOSE k \in 1..Len(yields) :
                    /\ yields[k] # None
                    /\ \A j \in 1..(k - 1) : yields[j] = None]

\* C23: the enhanced matcher tries the direct id, the legacy patterns and
\* the city fallback in order and returns what the first strategy that
\* yields an id gives; it returns null only when every strategy fails to
\* yield one, so that a legacy pattern that matches the text but resolves to
\* no show leaves the city fallback to be tried.
C23_NullOnlyWhenEveryStrategyFails ==
    app = "v4" /\ match_pc \in {"direct", "legacy", "fallback"}
        => matched_show_id[1] = FirstYield(StrategyYields)

\* A legacy pattern matched, its city and sequence resolved to no show, null
\* was returned, and the city fallback yields an id for the row.
C23_Witness ==
    /\ app = "v4"
    /\ match_pc = "legacy"
    /\ matched_show_id = <<None>>
    /\ StrategyYields[3] # None

\* The text the city fallback searches for the row being matched
FallbackText == IF app = "v4" THEN MergedTextV4(ad_row) ELSE MergedText(ad_row)

\* The sequence number the city fallback extracts from that text
FallbackSequence ==
    IF app = "v4"
    THEN SequenceNumberV4(SequenceDigits(MapLower(FallbackText)),
                          MapLower(FallbackText))
    ELSE SequenceNumber(SequenceDigits(MapLower(FallbackText)))

\* The cities of the lookup whose key is a substring of the normalized text
SubstringCities ==
    {i \in 1..Len(show_lookup) :
        /\ show_lookup[i].city_key # ""
        /\ Contains(NormalizeText(FallbackText), show_lookup[i].city_key)}

\* The city of the longest key among them, the one inserted first when the
\* lengths are equal
LongestCity ==
    CHOOSE c \in SubstringCities :
        \A j \in SubstringCities :
            \/ Len(show_lookup[j].city_key) < Len(show_lookup[c].city_key)
            \/ /\ Len(show_lookup[j].city_key) = Len(show_lookup[c].city_key)
               /\ c <= j

\* The show ids a city holds for a sequence number
ShowsOfSequence(c, seq) ==
    {show_lookup[c].sequences[k].show_id :
        k \in {k \in 1..Len(show_lookup[c].sequences) :
                  show_lookup[c].sequences[k].seq = seq}}

\* The show ids a city holds
ShowsOfCity(c) ==
    {show_lookup[c].sequences[k].show_id :
        k \in 1..Len(show_lookup[c].sequences)}

\* C24: in the city fallback the longest of the city keys that are
\* substrings of the normalized text is chosen (the first inserted among
\* equals); the result is that city's show for the extracted sequence number
\* when it has one, some show of that city otherwise, and null when no key
\* is a substring or the lookup is empty.
C24_LongestCityKeyChosen ==
    match_pc = "fallback" =>
        IF SubstringCities = {} THEN matched_show_id[1] = None
        ELSE IF ShowsOfSequence(LongestCity, FallbackSequence) # {}
        THEN matched_show_id[1] \in
                 ShowsOfSequence(LongestCity, FallbackSequence)
        ELSE matched_show_id[1] \in ShowsOfCity(LongestCity)

\* The fallback of app.py has returned a show for a text that holds the keys
\* of two cities, the shorter inserted first.
C24_Witness ==
    /\ app = "app"
    /\ match_pc = "fallback"
    /\ Cardinality(SubstringCities) = 2
    /\ LongestCity = 2
    /\ matched_show_id[1] # None

\* The alias index of the module that resolves the headers
ResolvingIndex == IF app = "v4" THEN AliasIndexV4 ELSE AliasIndex

\* The first alias of a canonical field, in priority order, that is the
\* normalized name of a header; "" when none is
FirstMatchingAlias(aliases, before) ==
    LET found == {j \in 1..Len(aliases) : aliases[j] \in ExistingKeys(before)}
    IN  IF found = {} THEN ""
        ELSE aliases[CHOOSE j \in found : \A k \in found : j <= k]

\* Header i is bound to the canonical field `name`: no header has that name
\* already, and the header is the first match of the field's aliases
BoundTo(before, i, name) ==
    \E s \in 1..Len(ResolvingIndex) :
        /\ ResolvingIndex[s].standard = name
        /\ \A j \in 1..Len(before) : before[j] # name
        /\ NormalizeColumnName(before[i])
               = FirstMatchingAlias(ResolvingIndex[s].aliases, before)

\* The headers `after` resolve the headers `before` without loss
ResolvesWithoutLoss(before, after) ==
    /\ Len(after) = Len(before)
    /\ \A i \in 1..Len(before) :
          after[i] = before[i] \/ BoundTo(before, i, after[i])
    /\ \A i, j \in 1..Len(before) :
          i # j /\ after[i] = after[j] => before[i] = before[j]

\* C25: header resolution neither drops nor overwrites columns: a pass
\* leaves as many headers as it found, every header it does not bind to a
\* canonical field unchanged at its position, at most one header bound to
\* each canonical field (the first match of the field's aliases in priority
\* order), and no header renamed to a canonical name another header has.
C25_HeadersKeptAndBoundOnce ==
    [][passes' = passes + 1 => ResolvesWithoutLoss(columns, columns')]_vars

\* optimized-ads-analyzer.py has resolved the headers of a days report by
\* position: the header that was "date" has another name.
C25_Witness ==
    /\ app = "v4"
    /\ passes = 1
    /\ dataset_type = <<"days">>
    /\ header_row = <<"Day", "date">>
    /\ columns = <<"campaign_name", "campaign_name">>

\* Snapshot j of the cleaned frame comes before snapshot i of the same show
\* in report_date order: an earlier date, a date against none, or the same
\* date (or none for both) in an earlier row
ReportedBefore(df, j, i) ==
    /\ j # i
    /\ df[j].show_id = df[i].show_id
    /\ IF df[j].report_date = NaT \/ df[i].report_date = NaT
       THEN \/ df[j].report_date # NaT
            \/ df[i].report_date = NaT /\ j < i
       ELSE \/ DateKey(df[j].report_date) < DateKey(df[i].report_date)
            \/ /\ DateKey(df[j].report_date) = DateKey(df[i].report_date)
               /\ j < i

\* Snapshot i and the up to 6 snapshots of its show that come last before it
WindowOf(df, i) ==
    LET before == {j \in 1..Len(df) : ReportedBefore(df, j, i)}
    IN  {i} \cup {j \in before :
                    Cardinality({k \in before : ReportedBefore(df, j, k)}) < 6}

\* The sum of today_sold over a set of snapshots, a null counting as 0
RECURSIVE TodaySoldOfRows(_, _)
TodaySoldOfRows(df, rows) ==
    IF rows = {} THEN Num(0)
    ELSE LET j == CHOOSE j \in rows : TRUE
             rest == TodaySoldOfRows(df, rows \ {j})
         IN  IF df[j].today_sold = NaN THEN rest
             ELSE RatAdd(rest, df[j].today_sold)

\* C26: sales_last_7_days at a snapshot is the sum of today_sold (nulls as
\* 0) over the snapshot and the up to 6 snapshots of the same show_id that
\* precede it in report_date order (ties by row order); snapshots of other
\* shows never enter the window, wherever they stand in the sheet, and the
\* value at every snapshot, the latest included, is taken over the show's
\* whole ordered series.
C26_RollingSumOverOwnSeries ==
    sales_df # Nothing =>
        \A i \in 1..Len(sales_df[1]) :
            sales_df[1][i].sales_last_7_days
                = TodaySoldOfRows(sales_df[1], WindowOf(sales_df[1], i))

\* A sheet of eight reports of one show has been loaded: the window of its
\* last snapshot leaves out the first, which sold tickets that day.
C26_Witness ==
    /\ sales_df # Nothing
    /\ Len(sales_df[1]) = 8
    /\ \E i, j \in 1..8 :
          /\ Cardinality(WindowOf(sales_df[1], i)) = 7
          /\ ReportedBefore(sales_df[1], j, i)
          /\ j \notin WindowOf(sales_df[1], i)
          /\ sales_df[1][j].today_sold = Num(3)

\* The month_header rows among the first n rows of the sheet
MonthHeadersIn(n) ==
    {k \in 1..n :
        /\ raw_data[k] # <<>>
        /\ IdentifyLineType(FirstCell(raw_data[k]), raw_data[k])
               = "month_header"}

\* The first cell of the last month_header row among the first n rows, None
\* when there is none
MonthAfter(n) ==
    IF MonthHeadersIn(n) = {} THEN None
    ELSE FirstCell(raw_data[CHOOSE k \in MonthHeadersIn(n) :
                                \A j \in MonthHeadersIn(n) : j <= k])

\* The snapshot of the row, had the scan read it under another month
UnderAnotherMonth(show) ==
    ExtractShowData(raw_data[show.source_row + 1], show.source_row, "March",
                    exchange_rates)[1]

\* C27: during the row scan the month context is the first cell of the last
\* month_header row read, whatever rows of other types came after it (None
\* before the first); a snapshot records the context in force when its row
\* was read, and the context enters no other field of the snapshot.
C27_MonthOnlyFromHeader ==
    load_pc \in {"scan", "parsed", "loaded"} =>
        /\ current_month = MonthAfter(row_idx)
        /\ \A i \in 1..Len(processed_shows) :
              processed_shows[i].current_month
                  = MonthAfter(processed_shows[i].source_row)
        /\ processed_shows # <<>> =>
              LET show  == processed_shows[Len(processed_shows)]
                  other == UnderAnotherMonth(show)
              IN  \A field \in DOMAIN show \ {"current_month"} :
                      show[field] = other[field]

\* A month header, a *Month* row and a show row have been scanned: the
\* snapshot carries the month of the header.
C27_Witness ==
    /\ raw_data = << <<"October">>, <<"*October*">>, ShowRow >>
    /\ row_idx = 3
    /\ Len(processed_shows) = 1
    /\ processed_shows[1].current_month = "October"
    /\ current_month = "October"

\* C28: a failed refresh never degrades a populated cache: when a table is
\* cached, however old, and the refresh fails, the table and its timestamp
\* are left exactly as they were, so that the cache is still stale and the
\* next call attempts the refresh again.
C28_FailedRefreshKeepsCache ==
    [][(/\ rate_calls' # rate_calls
        /\ refresh_outcome' = "failure"
        /\ exchange_rates # Nothing)
          => /\ exchange_rates' = exchange_rates
             /\ exchange_rates_last_updated' = exchange_rates_last_updated
             /\ ~CacheIsFresh(exchange_rates', exchange_rates_last_updated',
                              utcnow')]_vars

\* Two refreshes in a row have failed over the remote table fetched more
\* than a TTL before: the table and its timestamp are the ones of the fetch.
C28_Witness ==
    /\ rate_calls = 3
    /\ refresh_outcome = "failure"
    /\ exchange_rates = <<RemoteRates>>
    /\ exchange_rates_last_updated = <<0>>
    /\ utcnow > TtlHours

\* Rows range(s): the rows of a frame
FrameRows(df) == {df[k] : k \in 1..Len(df)}

\* The rows of the loaded frame flagged is_latest_snapshot
FlaggedLatest == {r \in FrameRows(sales_df[1]) : r.is_latest_snapshot}

\* C29: the two latest-snapshot selectors agree: the rows _latest_snapshots
\* keeps for get_data_summary are the rows flagged is_latest_snapshot, one
\* per show, with tied and with null report dates too.
C29_LatestSelectorsAgree ==
    latest # Nothing => FrameRows(latest[1]) = FlaggedLatest

\* The summary was taken from a frame that holds a dated report and then an
\* undated report of one show: _latest_snapshots keeps the undated one and
\* is_latest_snapshot flags the dated one.
C29_Witness ==
    /\ latest # Nothing
    /\ raw_data = <<LaterReport, UndatedReport>>
    /\ FrameRows(latest[1]) = {sales_df[1][2]}
    /\ FlaggedLatest = {sales_df[1][1]}

---------------------------------------------------------------------------
\* The sales timeline (IntegratedDashboard._build_sales_timeline, v2/app.py)

RatSub(a, b) == RatAdd(a, RatMul(Num(-1), b))

RatMax(a, b) == IF RatLt(a, b) THEN b ELSE a

\* history: the rows of the selected show (every row when show_id is None)
\* that have a report date
TimelineHistory(df, show_id) ==
    SelectSeq(df, LAMBDA r : /\ show_id # None => r.show_id = show_id
                             /\ r.report_date # NaT)

\* groupby(["show_id", "report_date"]).agg((field, "last")) on the history
\* sorted by show_id, report_date and source_row: the last value of the
\* group that is not null, NaN when it has none
GroupLast(history, show_id, report_date, field) ==
    LET valid == {k \in 1..Len(history) :
                    /\ history[k].show_id = show_id
                    /\ history[k].report_date = report_date
                    /\ history[k][field] # NaN}
    IN  IF valid = {} THEN NaN
        ELSE history[CHOOSE k \in valid :
                        \A j \in valid :
                            history[j].source_row <= history[k].source_row][field]

\* The report dates of per_day for one show
ReportDatesOf(history, show_id) ==
    {history[k].report_date :
        k \in {j \in 1..Len(history) : history[j].show_id = show_id}}

\* per_day["total_sold"] after fillna(0.0)
PerDayTotalSold(history, show_id, report_date) ==
    LET total_sold == GroupLast(history, show_id, report_date, "total_sold")
    IN  IF total_sold = NaN THEN Num(0) ELSE total_sold

\* per_day["reported_daily"] after fillna(0.0).clip(lower=0.0)
ReportedDaily(history, show_id, report_date) ==
    LET reported == GroupLast(history, show_id, report_date, "today_sold")
    IN  IF reported = NaN THEN Num(0) ELSE RatMax(reported, Num(0))

\* per_day["increment_from_total"]: the difference to the show's previous
\* day, the total itself on the show's first day, never below 0
IncrementFromTotal(history, show_id, report_date) ==
    LET earlier == {d \in ReportDatesOf(history, show_id) :
                        DateKey(d) < DateKey(report_date)}
        total_sold == PerDayTotalSold(history, show_id, report_date)
    IN  IF earlier = {} THEN RatMax(total_sold, Num(0))
        ELSE LET previous ==
                     CHOOSE d \in earlier :
                         \A e \in earlier : DateKey(e) <= DateKey(d)
             IN  RatMax(RatSub(total_sold,
                               PerDayTotalSold(history, show_id, previous)),
                        Num(0))

\* per_day["daily_sold"]: the larger of the two figures of the day
DailySold(history, show_id, report_date) ==
    RatMax(ReportedDaily(history, show_id, report_date),
           IncrementFromTotal(history, show_id, report_date))

\* The shows that have a per_day row on a date, as a sequence
ShowsReporting(history, report_date) ==
    SelectSeq(ShowIdsSorted,
              LAMBDA s : report_date \in ReportDatesOf(history, s))

\* pd.date_range(start, end, freq="D"); the dates of the model lie in one
\* month
DateRange(start, end) ==
    [k \in 1..(end.d - start.d + 1) |-> [start EXCEPT !.d = start.d + k - 1]]

\* aggregated after reindex(full_range) and daily_sold.fillna(0.0): one row
\* per calendar day from the first report date to today (to the first
\* report date when today lies before it); a day without a report has no
\* official_total and a daily_sold of 0
Aggregated(history, now) ==
    LET dates == {history[k].report_date : k \in 1..Len(history)}
        start == CHOOSE d \in dates : \A e \in dates : DateKey(d) <= DateKey(e)
        end == IF DateKey(now) < DateKey(start) THEN start ELSE now
        full_range == DateRange(start, end)
        shows(d) == ShowsReporting(history, d)
    IN  [k \in 1..Len(full_range) |->
            LET d == full_range[k]
            IN  IF d \in dates
                THEN [report_date |-> d,
                      official_total |->
                          SeqSum([i \in 1..Len(shows(d)) |->
                                    PerDayTotalSold(history, shows(d)[i], d)]),
                      daily_sold |->
                          SeqSum([i \in 1..Len(shows(d)) |->
                                    DailySold(history, shows(d)[i], d)])]
                ELSE [report_date |-> d,
                      official_total |-> NaN,
                      daily_sold |-> Num(0)]]

\* The loop body with the official total taken as it is reported: a day
\* whose official total is positive sets the running total to it
NextRunningTotalOfficial(running, raw_total, daily) ==
    IF RatLt(Num(0), raw_total) THEN raw_total
    ELSE RatMax(RatAdd(running, daily), running)

\* The body of the loop over the days, lines 769-773: the running total
\* after a day with official total raw_total and daily sales daily
NextRunningTotal(running, raw_total, daily) ==
    LET projected == RatAdd(running, daily)
    IN  IF RatLt(Num(0), raw_total) THEN RatMax(raw_total, projected)
        ELSE RatMax(projected, running)

MaxHistory == 3

MaxToday == 4

\* A day of the month the reports are from
DayOf(d) == [y |-> 2025, m |-> 9, d |-> d]

\* A snapshot row with the columns the timeline reads
TimelineRow(show_id, report_date, total_sold, today_sold) ==
    [show_id |-> show_id, report_date |-> report_date,
     total_sold |-> total_sold, today_sold |-> today_sold]

\* Snapshots of two shows: a first report, a later report with a lower
\* total and no daily figure, a second report of the same day with a
\* negative daily figure, a report without a total, a report without totals
\* at all on the first day, and a report without a date
TimelineRowPool ==
    {TimelineRow("WDC_0927", DayOf(1), Num(5), Num(2)),
     TimelineRow("WDC_0927", DayOf(3), Num(3), NaN),
     TimelineRow("WDC_0927", DayOf(3), Num(8), Num(-1)),
     TimelineRow("NYC_1004", DayOf(2), NaN, Num(4)),
     TimelineRow("NYC_1004", DayOf(1), Num(2), Num(0)),
     TimelineRow("WDC_0927", NaT, Num(9), Num(9))}

\* Frames of up to MaxHistory snapshots, source_row counting the rows
TimelineFrames ==
    UNION {{[k \in 1..n |-> rows[k] @@ [source_row |-> k - 1]] :
                rows \in [1..n -> TimelineRowPool]} : n \in 0..MaxHistory}

InitTimeline ==
    /\ timeline_df \in TimelineFrames
    /\ selected_show_id \in {None, "WDC_0927"}
    /\ today \in {DayOf(d) : d \in 1..MaxToday}
    /\ aggregated = Nothing
    /\ running_total = Num(0)
    /\ cumulative = <<>>
    /\ timeline = Nothing
    /\ ads_df = <<>>
    /\ funnel_summary = Nothing
    /\ days_df = <<>>
    /\ enrich_pc = "start"
    /\ latest = Nothing
    /\ InitSheet /\ InitRates /\ IdleAds /\ IdleLookup /\ IdleCalls
    /\ IdleRace

\* The returns of lines 687-696: no frame, or no dated row of the show
TimelineEmpty ==
    /\ timeline = Nothing
    /\ aggregated = Nothing
    /\ TimelineHistory(timeline_df, selected_show_id) = <<>>
    /\ timeline' = << <<>> >>
    /\ UNCHANGED <<timeline_df, selected_show_id, today, aggregated,
                   running_total, cumulative, ads_df, funnel_summary,
                   days_df, enrich_pc, latest, sheetVars, rateVars, adsVars,
                   lookupVars, callVars, raceVars>>

\* Lines 698-762: the daily frame over the filled date range
AggregateTimeline ==
    /\ timeline = Nothing
    /\ aggregated = Nothing
    /\ TimelineHistory(timeline_df, selected_show_id) # <<>>
    /\ aggregated' =
          <<Aggregated(TimelineHistory(timeline_df, selected_show_id), today)>>
    /\ running_total' = Num(0)
    /\ cumulative' = <<>>
    /\ UNCHANGED <<timeline_df, selected_show_id, today, timeline, ads_df,
                   funnel_summary, days_df, enrich_pc, latest, sheetVars,
                   rateVars, adsVars, lookupVars, callVars, raceVars>>

\* One iteration of the loop of lines 764-774
AccumulateDay ==
    /\ timeline = Nothing
    /\ aggregated # Nothing
    /\ Len(cumulative) < Len(aggregated[1])
    /\ LET day == aggregated[1][Len(cumulative) + 1]
           raw_total == IF day.official_total = NaN THEN Num(0)
                        ELSE day.official_total
       IN  /\ running_total' =
                 NextRunningTotal(running_total, raw_total, day.daily_sold)
           /\ cumulative' = Append(cumulative, running_total')
    /\ UNCHANGED <<timeline_df, selected_show_id, today, aggregated,
                   timeline, ads_df, funnel_summary, days_df, enrich_pc,
                   latest, sheetVars, rateVars, adsVars, lookupVars,
                   callVars, raceVars>>

\* Lines 776-781: the frame returned once the loop is over
ReturnTimeline ==
    /\ timeline = Nothing
    /\ aggregated # Nothing
    /\ Len(cumulative) = Len(aggregated[1])
    /\ timeline' =
          << [k \in 1..Len(cumulative) |->
                [report_date |-> aggregated[1][k].report_date,
                 cumulative_total |-> cumulative[k],
                 daily_sold |-> aggregated[1][k].daily_sold,
                 official_total |->
                     IF aggregated[1][k].official_total = NaN THEN Num(0)
                     ELSE aggregated[1][k].official_total]] >>
    /\ UNCHANGED <<timeline_df, selected_show_id, today, aggregated,
                   running_total, cumulative, ads_df, funnel_summary,
                   days_df, enrich_pc, latest, sheetVars, rateVars, adsVars,
                   lookupVars, callVars, raceVars>>

NextTimeline ==
    \/ TimelineEmpty
    \/ AggregateTimeline
    \/ AccumulateDay
    \/ ReturnTimeline

\* One call of _build_sales_timeline
SpecTimeline == InitTimeline /\ [][NextTimeline]_vars

\* The rows of the returned timeline are the consecutive calendar days
ConsecutiveDays(rows) ==
    \A k \in 1..(Len(rows) - 1) :
        DateKey(rows[k + 1].report_date) = DateKey(rows[k].report_date) + 1

\* C30: cumulative_total never decreases from one calendar day to the next
\* over the filled date range, days without a report and days whose official
\* total is lower than an earlier day's included, and on every day with a
\* positive official total it is at least that total.
C30_CumulativeNeverDecreases ==
    timeline # Nothing =>
        /\ ConsecutiveDays(timeline[1])
        /\ \A k \in 1..(Len(timeline[1]) - 1) :
              RatLe(timeline[1][k].cumulative_total,
                    timeline[1][k + 1].cumulative_total)
        /\ \A k \in 1..Len(timeline[1]) :
              RatLt(Num(0), timeline[1][k].official_total)
                  => RatLe(timeline[1][k].official_total,
                           timeline[1][k].cumulative_total)

\* A timeline of four days: 5 tickets on the first day, no report on the
\* second, an official total of 3 on the third, nothing on the fourth. The
\* cumulative total stays at 5.
C30_Witness ==
    /\ timeline # Nothing
    /\ Len(timeline[1]) = 4
    /\ timeline[1][1].official_total = Num(5)
    /\ timeline[1][2].official_total = Num(0)
    /\ timeline[1][3].official_total = Num(3)
    /\ [k \in 1..4 |-> timeline[1][k].cumulative_total]
          = <<Num(5), Num(5), Num(5), Num(5)>>

====
